---- MODULE Spec2Model ----
(***************************************************************************)
(* Model of the Genesis manual system: the restricted shell                *)
(* (GenesisManRepl, src/manual/pages/genesis.ts) and the interactive       *)
(* pager (ManualPager, src/manual/core/pager.ts).                          *)
(*                                                                         *)
(* Text is modelled character by character: a string is a sequence of      *)
(* one-character strings, so that trimming, tokenising, lower-casing,      *)
(* path resolution and prefix tests are computed the way the code          *)
(* computes them.                                                          *)
(***************************************************************************)
EXTENDS Integers, Sequences, FiniteSets, TLC

VARIABLES
  replPc,         \* position of GenesisManRepl.start: "new", "prompt", "done"
  running,        \* GenesisManRepl.running
  history,        \* GenesisManRepl.history
  commandCount,   \* GenesisManRepl.commandCount
  rootDir,        \* GenesisManRepl.rootDir
  currentDir,     \* GenesisManRepl.currentDir
  target,         \* targetPath / filePath of the last recorded command
  lastOut,        \* what the last recorded command printed
  fsCalls,        \* the Deno filesystem calls the last recorded command made
  pages,          \* ManualRegistry.pages: lower-cased command name -> page
  pagerPc,        \* position of the ManualPager: "none" (not constructed),
                  \* "new", "loop" (renderLoop waits for a key), "help"
                  \* (showHelp waits for a key), "done" (display returned),
                  \* "failed" (display threw)
  lines,          \* ManualPager.lines
  currentLine,    \* ManualPager.currentLine
  terminalHeight, \* ManualPager.terminalHeight
  terminalWidth,  \* ManualPager.terminalWidth
  searchTerm,     \* ManualPager.searchTerm
  searchResults,  \* ManualPager.searchResults
  currentSearchIndex, \* ManualPager.currentSearchIndex
  animInterval,   \* the interval timers set by renderLoop and not cleared:
                  \* own, on the ManualPager at hand; other, on the
                  \* ManualPagers constructed before it
  animationFrame, \* ManualPager.animationFrame
  rawMode,        \* Deno.stdin is in raw mode
  editor          \* readLine: line, cursor, and what the call has returned

shellVars == <<replPc, running, history, commandCount, rootDir, currentDir,
               target, lastOut, fsCalls>>

pagerVars == <<pagerPc, lines, currentLine, terminalHeight, terminalWidth,
               searchTerm, searchResults, currentSearchIndex, animInterval,
               animationFrame>>

vars == <<shellVars, pages, pagerVars, rawMode, editor>>

-----------------------------------------------------------------------------
(* Bounds *)

\* processCommand records at most this many commands in one session
MaxCommands == 2

\* at most this many interval timers are set and not cleared
MaxTimers == 2

-----------------------------------------------------------------------------
(* Strings as character sequences *)

Letters ==
  [ upper |-> <<"A","B","C","D","E","F","G","H","I","J","K","L","M",
                "N","O","P","Q","R","S","T","U","V","W","X","Y","Z">>,
    lower |-> <<"a","b","c","d","e","f","g","h","i","j","k","l","m",
                "n","o","p","q","r","s","t","u","v","w","x","y","z">> ]

\* String.prototype.toLowerCase, one character
ToLowerChar(c) ==
  IF \E i \in 1..26 : Letters.upper[i] = c
  THEN Letters.lower[CHOOSE i \in 1..26 : Letters.upper[i] = c]
  ELSE c

\* String.prototype.toLowerCase
ToLowerCase(s) == [i \in 1..Len(s) |-> ToLowerChar(s[i])]

\* String.prototype.startsWith
StartsWith(s, prefix) ==
  /\ Len(prefix) <= Len(s)
  /\ \A i \in 1..Len(prefix) : s[i] = prefix[i]

IsSpace(c) == c = " "

\* String.prototype.trim
RECURSIVE TrimLeft(_)
TrimLeft(s) ==
  IF s # <<>> /\ IsSpace(Head(s)) THEN TrimLeft(Tail(s)) ELSE s

RECURSIVE TrimRight(_)
TrimRight(s) ==
  IF s # <<>> /\ IsSpace(s[Len(s)])
  THEN TrimRight(SubSeq(s, 1, Len(s) - 1))
  ELSE s

Trim(s) == TrimRight(TrimLeft(s))

\* s.split(sep) for a one-character separator: the pieces between
\* separators, empty pieces included
RECURSIVE SplitAcc(_, _, _, _)
SplitAcc(s, sep, done, cur) ==
  IF s = <<>> THEN Append(done, cur)
  ELSE IF Head(s) = sep
       THEN SplitAcc(Tail(s), sep, Append(done, cur), <<>>)
       ELSE SplitAcc(Tail(s), sep, done, Append(cur, Head(s)))

SplitOn(s, sep) == SplitAcc(s, sep, <<>>, <<>>)

\* trimmed.split(/\s+/): runs of whitespace separate the parts
SplitWhitespace(s) == SelectSeq(SplitOn(s, " "), LAMBDA p : p # <<>>)

\* Array.prototype.join
RECURSIVE JoinWith(_, _)
JoinWith(parts, sep) ==
  IF parts = <<>> THEN <<>>
  ELSE IF Len(parts) = 1 THEN parts[1]
  ELSE parts[1] \o sep \o JoinWith(Tail(parts), sep)

Last(s) == s[Len(s)]

-----------------------------------------------------------------------------
(* std/path (posix): resolve, relative                                       *)

\* the separator and the two special segments
Seg == [ slash |-> <<"/">>, up |-> <<".", ".">>, dot |-> <<".">> ]

\* normalizeString: "." and empty segments are dropped, ".." removes the
\* segment before it; above the root of an absolute path ".." is dropped
RECURSIVE NormalizeSegs(_, _)
NormalizeSegs(segs, acc) ==
  IF segs = <<>> THEN acc
  ELSE LET s == Head(segs) IN
       IF s = <<>> \/ s = Seg.dot THEN NormalizeSegs(Tail(segs), acc)
       ELSE IF s = Seg.up
            THEN NormalizeSegs(Tail(segs),
                   IF acc = <<>> THEN acc ELSE SubSeq(acc, 1, Len(acc) - 1))
            ELSE NormalizeSegs(Tail(segs), Append(acc, s))

\* the segments of an absolute path
Segs(p) == NormalizeSegs(SplitOn(p, "/"), <<>>)

\* the absolute path with the given segments
AbsPath(segs) == Seg.slash \o JoinWith(segs, Seg.slash)

\* Deno.cwd(): the process never changes directory, so it is the directory
\* the shell was constructed in
Cwd == rootDir

\* resolve(...paths): from the right, prepend paths until one is absolute
\* (the working directory when none is), then normalize
RECURSIVE ResolveAcc(_, _, _)
ResolveAcc(paths, i, acc) ==
  IF StartsWith(acc, Seg.slash) THEN acc
  ELSE LET p == IF i >= 1 THEN paths[i] ELSE Cwd IN
       IF p = <<>> THEN ResolveAcc(paths, i - 1, acc)
       ELSE ResolveAcc(paths, i - 1, p \o Seg.slash \o acc)

resolve(paths) == AbsPath(Segs(ResolveAcc(paths, Len(paths), <<>>)))

\* length of the longest common prefix of two segment lists
RECURSIVE CommonLen(_, _)
CommonLen(a, b) ==
  IF a # <<>> /\ b # <<>> /\ Head(a) = Head(b)
  THEN 1 + CommonLen(Tail(a), Tail(b))
  ELSE 0

\* relative(from, to): one ".." for every segment of from below the common
\* ancestor, then the segments of to below it
relative(from, to) ==
  LET f == Segs(resolve(<<from>>))
      t == Segs(resolve(<<to>>))
      k == CommonLen(f, t)
      ups == [i \in 1..(Len(f) - k) |-> Seg.up]
  IN JoinWith(ups \o SubSeq(t, k + 1, Len(t)), Seg.slash)

-----------------------------------------------------------------------------
(* The filesystem the shell runs on: a fixed tree                            *)

PathName ==
  [ repo |-> <<"r","e","p","o">>,
    sub |-> <<"s","u","b">>,
    inner |-> <<"i","n">>,
    dotCfg |-> <<".",".","c">>,
    file |-> <<"f">>,
    etc |-> <<"e","t","c">>,
    nope |-> <<"n","o">>,
    locked |-> <<"k">> ]

RepoDir == AbsPath(<<PathName.repo>>)
SubDir == AbsPath(<<PathName.repo, PathName.sub>>)

\* the directories that exist
FsDirs ==
  { AbsPath(<<>>), AbsPath(<<PathName.etc>>), RepoDir, SubDir,
    AbsPath(<<PathName.repo, PathName.sub, PathName.inner>>),
    AbsPath(<<PathName.repo, PathName.dotCfg>>) }

\* the regular files that exist
FsFiles ==
  { AbsPath(<<PathName.repo, PathName.file>>),
    AbsPath(<<PathName.repo, PathName.sub, PathName.file>>) }

\* the regular files that exist and that the process may not read
FsLocked ==
  { AbsPath(<<PathName.repo, PathName.locked>>),
    AbsPath(<<PathName.repo, PathName.sub, PathName.locked>>) }

\* Deno.stat / Deno.readDir / Deno.readTextFile see this kind of entry,
\* or, for a path that runs through a regular file, fail with an error that
\* is not Deno.errors.NotFound; a locked file is a regular file to stat and
\* to readDir, and readTextFile fails on it with Deno.errors.PermissionDenied
Stat(p) ==
  IF p \in FsDirs THEN "dir"
  ELSE IF p \in FsFiles THEN "file"
  ELSE IF p \in FsLocked THEN "locked"
  ELSE IF \E n \in 1..(Len(Segs(p)) - 1) :
            AbsPath(SubSeq(Segs(p), 1, n)) \in FsFiles \cup FsLocked
       THEN "ioerror"
  ELSE "notfound"

\* the directory entries of path that are directories (Deno.readDir)
SubDirsOf(path) ==
  { d \in FsDirs : Segs(d) # <<>> /\
      SubSeq(Segs(d), 1, Len(Segs(d)) - 1) = Segs(path) }

\* a filesystem call as the shell issues it
FsCall(op, path) == [op |-> op, path |-> path]

\* no path computed
NoPath == <<>>

-----------------------------------------------------------------------------
(* GenesisManRepl: the path sandbox                                          *)

\* the gate with its first test left out: what remains never denies
isPathAllowedSecondTestOnly(targetPath) ==
  LET resolved == resolve(<<targetPath>>)
      rel == relative(rootDir, resolved)
  IN ~StartsWith(resolve(<<rel>>), Seg.up)

\* the gate that also turns away the root itself
isPathAllowedBelowRootOnly(targetPath) ==
  LET resolved == resolve(<<targetPath>>)
      rel == relative(rootDir, resolved)
  IN rel # <<>> /\ ~StartsWith(rel, Seg.up)

isPathAllowed(targetPath) ==
  LET resolved == resolve(<<targetPath>>)
      rel == relative(rootDir, resolved)
  IN ~StartsWith(rel, Seg.up) /\ ~StartsWith(resolve(<<rel>>), Seg.up)

normalizePath(path) ==
  IF StartsWith(path, Seg.slash)
  THEN currentDir
  ELSE resolve(<<currentDir, path>>)

-----------------------------------------------------------------------------
(* ManualRegistry                                                            *)

Topic ==
  [ genesis |-> <<"g","e","n","e","s","i","s">>,
    init |-> <<"i","n","i","t">>,
    dev |-> <<"d","e","v">> ]

\* the constructor's map
InitialPages ==
  [k \in {Topic.genesis, Topic.init, Topic.dev} |->
     IF k = Topic.genesis THEN "genesisPage"
     ELSE IF k = Topic.init THEN "initPage" ELSE "devPage"]

\* ManualRegistry.has
RegistryHas(command) == ToLowerCase(command) \in DOMAIN pages

-----------------------------------------------------------------------------
(* GenesisManRepl: command handlers.  Each sets the handler's effect on      *)
(* currentDir and running and what the command computed, printed and asked   *)
(* of the filesystem.                                                        *)

Effect(dir, run, tgt, out, calls) ==
  /\ currentDir' = dir
  /\ running' = run
  /\ target' = tgt
  /\ lastOut' = out
  /\ fsCalls' = calls

\* cd that trusts stat to succeed only on directories
cdCommandNoDirCheck(args) ==
  IF args = <<>>
  THEN Effect(rootDir, running, NoPath, "none", {})
  ELSE LET targetPath == normalizePath(args[1]) IN
       IF ~isPathAllowed(targetPath)
       THEN Effect(currentDir, running, targetPath, "denied", {})
       ELSE IF Stat(targetPath) = "notfound"
            THEN Effect(currentDir, running, targetPath, "notfound",
                        {FsCall("stat", targetPath)})
            ELSE Effect(targetPath, running, targetPath, "none",
                        {FsCall("stat", targetPath)})

\* cd that does not ask the sandbox
cdCommandNoGate(args) ==
  IF args = <<>>
  THEN Effect(rootDir, running, NoPath, "none", {})
  ELSE LET targetPath == normalizePath(args[1]) IN
       IF Stat(targetPath) = "dir"
       THEN Effect(targetPath, running, targetPath, "none",
                   {FsCall("stat", targetPath)})
       ELSE Effect(currentDir, running, targetPath,
                   CASE Stat(targetPath) \in {"file", "locked"} -> "notdir"
                     [] Stat(targetPath) = "notfound" -> "notfound"
                     [] OTHER -> "error",
                   {FsCall("stat", targetPath)})

\* cd that leaves the directory alone when called without argument
cdCommandNoArgStays(args) ==
  IF args = <<>>
  THEN Effect(currentDir, running, NoPath, "none", {})
  ELSE LET targetPath == normalizePath(args[1]) IN
       IF ~isPathAllowed(targetPath)
       THEN Effect(currentDir, running, targetPath, "denied", {})
       ELSE IF Stat(targetPath) = "dir"
            THEN Effect(targetPath, running, targetPath, "none",
                        {FsCall("stat", targetPath)})
            ELSE Effect(currentDir, running, targetPath,
                        CASE Stat(targetPath) \in {"file", "locked"} -> "notdir"
                          [] Stat(targetPath) = "notfound" -> "notfound"
                          [] OTHER -> "error",
                        {FsCall("stat", targetPath)})

\* an error of stat other than NotFound is thrown again, to processCommand's
\* catch, which prints it
cdCommand(args) ==
  IF args = <<>>
  THEN Effect(rootDir, running, NoPath, "none", {})
  ELSE LET targetPath == normalizePath(args[1]) IN
       IF ~isPathAllowed(targetPath)
       THEN Effect(currentDir, running, targetPath, "denied", {})
       ELSE IF Stat(targetPath) = "dir"
            THEN Effect(targetPath, running, targetPath, "none",
                        {FsCall("stat", targetPath)})
            ELSE Effect(currentDir, running, targetPath,
                        CASE Stat(targetPath) \in {"file", "locked"} -> "notdir"
                          [] Stat(targetPath) = "notfound" -> "notfound"
                          [] OTHER -> "error",
                        {FsCall("stat", targetPath)})

\* ls that reads the directory before it asks the sandbox
lsCommandReadsFirst(args) ==
  LET targetPath == IF Len(args) > 0 THEN normalizePath(args[1]) ELSE currentDir IN
  IF ~isPathAllowed(targetPath)
  THEN Effect(currentDir, running, targetPath, "denied",
              {FsCall("readDir", targetPath)})
  ELSE Effect(currentDir, running, targetPath,
              CASE Stat(targetPath) = "dir" -> "listing"
                [] Stat(targetPath) = "notfound" -> "notfound"
                [] OTHER -> "error",
              {FsCall("readDir", targetPath)})

\* a readDir of a regular file fails with an error other than NotFound, which
\* lsCommand rethrows and processCommand's catch prints
lsCommand(args) ==
  LET targetPath == IF Len(args) > 0 THEN normalizePath(args[1]) ELSE currentDir IN
  IF ~isPathAllowed(targetPath)
  THEN Effect(currentDir, running, targetPath, "denied", {})
  ELSE Effect(currentDir, running, targetPath,
              CASE Stat(targetPath) = "dir" -> "listing"
                [] Stat(targetPath) = "notfound" -> "notfound"
                [] OTHER -> "error",
              {FsCall("readDir", targetPath)})

pwdCommand == Effect(currentDir, running, NoPath, "pwd", {})

\* cat and less: readTextFile of a directory fails with an error other than
\* NotFound, rethrown to processCommand's catch; onDenied is what the handler
\* does with Deno.errors.PermissionDenied
ReadFileCommand(args, onDenied) ==
  IF args = <<>>
  THEN Effect(currentDir, running, NoPath, "usage", {})
  ELSE LET filePath == normalizePath(args[1]) IN
       IF ~isPathAllowed(filePath)
       THEN Effect(currentDir, running, filePath, "denied", {})
       ELSE Effect(currentDir, running, filePath,
                   CASE Stat(filePath) = "file" -> "content"
                     [] Stat(filePath) = "notfound" -> "notfound"
                     [] Stat(filePath) = "locked" -> onDenied
                     [] OTHER -> "error",
                   {FsCall("readTextFile", filePath)})

\* cat prints "Permission denied" itself and throws nothing
catCommand(args) == ReadFileCommand(args, "permission")

\* less has no branch for PermissionDenied: it is thrown again
lessCommand(args) == ReadFileCommand(args, "error")

\* the readDir calls of displayTree: the path itself, then every directory
\* entry the sandbox allows; a failing readDir is skipped silently
RECURSIVE displayTree(_)
displayTree(path) ==
  {FsCall("readDir", path)} \cup
  IF Stat(path) = "dir"
  THEN UNION { displayTree(d) : d \in { e \in SubDirsOf(path) : isPathAllowed(e) } }
  ELSE {}

treeCommand(args) ==
  LET targetPath == IF Len(args) > 0 THEN normalizePath(args[1]) ELSE currentDir IN
  IF ~isPathAllowed(targetPath)
  THEN Effect(currentDir, running, targetPath, "denied", {})
  ELSE Effect(currentDir, running, targetPath, "tree", displayTree(targetPath))

\* man: showManual prints the page through a pager of its own, or the list
\* of topics when the registry has no such page
manCommand(args) ==
  IF args = <<>>
  THEN Effect(currentDir, running, NoPath, "usage", {})
  ELSE Effect(currentDir, running, NoPath,
              IF RegistryHas(args[1]) THEN "manual" ELSE "notopic", {})

\* exit(): the farewell, and the loop's flag
exit == running' = FALSE

-----------------------------------------------------------------------------
(* GenesisManRepl: the command words                                         *)

Word ==
  [ cd |-> <<"c","d">>,
    ls |-> <<"l","s">>,
    pwd |-> <<"p","w","d">>,
    cat |-> <<"c","a","t">>,
    less |-> <<"l","e","s","s">>,
    more |-> <<"m","o","r","e">>,
    tree |-> <<"t","r","e","e">>,
    man |-> <<"m","a","n">>,
    clear |-> <<"c","l","e","a","r">>,
    cls |-> <<"c","l","s">>,
    help |-> <<"h","e","l","p">>,
    question |-> <<"?">>,
    history |-> <<"h","i","s","t","o","r","y">>,
    exit |-> <<"e","x","i","t">>,
    quit |-> <<"q","u","i","t">>,
    q |-> <<"q">>,
    foo |-> <<"f","o","o">> ]

\* the first word of a non-blank line, lower-cased, and the words after it
PartsOf(line) == SplitWhitespace(Trim(line))
CommandOf(line) == ToLowerCase(PartsOf(line)[1])
ArgsOf(line) == Tail(PartsOf(line))

-----------------------------------------------------------------------------
(* The lines the user types                                                  *)

Line2(cmd, arg) == cmd \o <<" ">> \o arg

PathArg ==
  [ up |-> Seg.up,
    upUp |-> JoinWith(<<Seg.up, Seg.up>>, Seg.slash),
    subUpUp |-> JoinWith(<<PathName.sub, Seg.up, Seg.up>>, Seg.slash),
    subIn |-> JoinWith(<<PathName.sub, PathName.inner>>, Seg.slash),
    back |-> JoinWith(<<Seg.up, PathName.repo, PathName.sub>>, Seg.slash),
    absEtc |-> AbsPath(<<PathName.etc>>),
    absFile |-> AbsPath(<<PathName.repo, PathName.file>>),
    fileIn |-> JoinWith(<<PathName.file, PathName.inner>>, Seg.slash) ]

InputLines ==
  { <<>>, <<" ">>, Word.cd, Word.ls, Word.tree, Word.cat, Word.less,
    Word.man, Word.pwd, Word.help, Word.history, Word.clear, Word.exit,
    Word.foo }
  \cup { Line2(Word.cd, a) :
            a \in { PathArg.up, PathArg.upUp, PathName.sub, PathName.inner,
                    PathArg.subIn, PathArg.subUpUp, PathArg.back,
                    PathName.dotCfg, PathArg.absEtc, PathName.file,
                    PathName.nope, PathArg.fileIn } }
  \cup { Line2(Word.ls, a) :
            a \in { PathArg.up, PathArg.absEtc, PathName.dotCfg, PathName.file,
                    PathName.nope } }
  \cup { Line2(Word.cat, a) :
            a \in { PathName.file, PathArg.upUp, PathArg.absFile,
                    PathName.sub, PathName.locked } }
  \cup { Line2(Word.more, a) : a \in {PathName.file, PathArg.up, PathName.sub} }
  \cup { Line2(Word.less, PathName.locked) }
  \cup { Line2(Word.tree, a) :
            a \in { Seg.dot, PathArg.up, PathArg.absEtc, PathName.file } }
  \cup { Line2(Word.man, a) : a \in {Topic.dev, Word.foo} }
  \cup { <<" ", "C", "D", " ", " ">> \o PathName.sub \o <<" ">> }

\* the input lines that are not blank and whose command is one of commands
LinesOf(commands) ==
  { l \in InputLines : Trim(l) # <<>> /\ CommandOf(l) \in commands }

BlankLines == { l \in InputLines : Trim(l) = <<>> }

UnknownLines ==
  { l \in InputLines :
      /\ Trim(l) # <<>>
      /\ CommandOf(l) \notin
           { Word.man, Word.cd, Word.ls, Word.pwd, Word.cat, Word.less,
             Word.more, Word.tree, Word.clear, Word.cls, Word.help,
             Word.question, Word.history, Word.exit, Word.quit, Word.q } }

-----------------------------------------------------------------------------
(* GenesisManRepl.processCommand                                             *)

Dispatch(command, args) ==
  CASE command = Word.man -> manCommand(args)
    [] command = Word.cd -> cdCommand(args)
    [] command = Word.ls -> lsCommand(args)
    [] command = Word.pwd -> pwdCommand
    [] command = Word.cat -> catCommand(args)
    [] command \in {Word.less, Word.more} -> lessCommand(args)
    [] command = Word.tree -> treeCommand(args)
    [] command \in {Word.clear, Word.cls} ->
         Effect(currentDir, running, NoPath, "welcome", {})
    [] command \in {Word.help, Word.question} ->
         Effect(currentDir, running, NoPath, "help", {})
    [] command = Word.history ->
         Effect(currentDir, running, NoPath, "history", {})
    [] command \in {Word.exit, Word.quit, Word.q} ->
         /\ exit
         /\ currentDir' = currentDir
         /\ target' = NoPath
         /\ lastOut' = "bye"
         /\ fsCalls' = {}
    [] OTHER -> Effect(currentDir, running, NoPath, "unknown", {})

\* a shell that records the line as it was typed
processCommandRaw(line) ==
  IF Trim(line) = <<>>
  THEN UNCHANGED <<history, commandCount, currentDir, running, target,
                   lastOut, fsCalls>>
  ELSE /\ history' = Append(history, line)
       /\ commandCount' = commandCount + 1
       /\ Dispatch(CommandOf(line), ArgsOf(line))

processCommand(line) ==
  LET trimmed == Trim(line) IN
  IF trimmed = <<>>
  THEN UNCHANGED <<history, commandCount, currentDir, running, target,
                   lastOut, fsCalls>>
  ELSE /\ history' = Append(history, trimmed)
       /\ commandCount' = commandCount + 1
       /\ Dispatch(CommandOf(line), ArgsOf(line))

-----------------------------------------------------------------------------
(* Initial state                                                             *)

\* the field initialisers of ManualPager
DefaultTerminalHeight == 24
DefaultTerminalWidth == 80

Init ==
  /\ replPc = "new"
  /\ running = FALSE
  /\ history = <<>>
  /\ commandCount = 0
  /\ rootDir \in { RepoDir, SubDir }
  /\ currentDir = rootDir
  /\ target = NoPath
  /\ lastOut = "none"
  /\ fsCalls = {}
  /\ pages = InitialPages
  /\ pagerPc = "none"
  /\ lines = <<>>
  /\ currentLine = 0
  /\ terminalHeight = DefaultTerminalHeight
  /\ terminalWidth = DefaultTerminalWidth
  /\ searchTerm = <<>>
  /\ searchResults = <<>>
  /\ currentSearchIndex = 0
  /\ animInterval = [own |-> 0, other |-> 0]
  /\ animationFrame = 0
  /\ rawMode = FALSE
  /\ editor = [line |-> <<>>, cursor |-> 0, ret |-> "none", value |-> <<>>]

-----------------------------------------------------------------------------
(* The shell's steps                                                         *)

\* start(): the banner, then the loop
Start ==
  /\ replPc = "new"
  /\ replPc' = "prompt"
  /\ running' = TRUE
  /\ UNCHANGED <<history, commandCount, rootDir, currentDir, target, lastOut,
                 fsCalls, pages, editor, pagerVars, rawMode>>

-----------------------------------------------------------------------------
(* ManualPager.readKey: one chunk of input bytes to one key                  *)

\* Deno.stdin.read returned null: a chunk that holds no byte value
Eof == << -1 >>

\* the characters of the bytes 0x20 .. 0x7E (the grave accent, byte 0x60, is
\* written by name)
PrintableChars ==
  << " ", "!", "\"", "#", "$", "%", "&", "'", "(", ")", "*", "+",
     ",", "-", ".", "/", "0", "1", "2", "3", "4", "5", "6", "7",
     "8", "9", ":", ";", "<", "=", ">", "?", "@", "A", "B", "C",
     "D", "E", "F", "G", "H", "I", "J", "K", "L", "M", "N", "O",
     "P", "Q", "R", "S", "T", "U", "V", "W", "X", "Y", "Z", "[",
     "\\", "]", "^", "_", "GRAVE", "a", "b", "c", "d", "e", "f", "g",
     "h", "i", "j", "k", "l", "m", "n", "o", "p", "q", "r", "s",
     "t", "u", "v", "w", "x", "y", "z", "{", "|", "}", "~" >>

\* String.fromCharCode for a printable byte
FromCharCode(byte) == PrintableChars[byte - 31]

\* a decoder that takes the right arrow for the down arrow
EscapeKeyRightIsDown(code) ==
  CASE code = 65 -> "up"
    [] code \in {66, 67} -> "down"
    [] code = 68 -> "left"
    [] code = 53 -> "pageup"
    [] code = 54 -> "pagedown"
    [] code = 72 -> "home"
    [] code = 70 -> "end"
    [] OTHER -> ""

\* the key string for the third byte of an escape sequence; the empty string
\* when it is none of the eight codes
EscapeKey(code) ==
  CASE code = 65 -> "up"
    [] code = 66 -> "down"
    [] code = 67 -> "right"
    [] code = 68 -> "left"
    [] code = 53 -> "pageup"
    [] code = 54 -> "pagedown"
    [] code = 72 -> "home"
    [] code = 70 -> "end"
    [] OTHER -> ""

readKey(chunk) ==
  IF chunk = Eof THEN "q"
  ELSE IF Len(chunk) = 1 /\ chunk[1] \in {3, 4} THEN "q"
  ELSE IF Len(chunk) = 1 /\ chunk[1] = 32 THEN " "
  ELSE IF Len(chunk) = 1 /\ chunk[1] \in {10, 13} THEN "down"
  ELSE IF Len(chunk) = 1 /\ chunk[1] >= 32 /\ chunk[1] <= 126
       THEN FromCharCode(chunk[1])
  ELSE IF Len(chunk) >= 3 /\ chunk[1] = 27 /\ chunk[2] = 91
       THEN EscapeKey(chunk[3])
  ELSE ""

\* the chunks a terminal delivers: control bytes, letters, escape sequences
\* (whole, cut short, unknown), an empty read and the end of input
KeyChunks ==
  { Eof, <<>>, <<3>>, <<4>>, <<32>>, <<10>>, <<13>>, <<127>>, <<9>>,
    <<106>>, <<107>>, <<98>>, <<103>>, <<71>>, <<47>>, <<110>>, <<78>>,
    <<104>>, <<63>>, <<113>>, <<120>>,
    <<27>>, <<27, 91>>, <<27, 91, 65>>, <<27, 91, 66>>, <<27, 91, 67>>,
    <<27, 91, 68>>, <<27, 91, 53, 126>>, <<27, 91, 54, 126>>, <<27, 91, 72>>,
    <<27, 91, 70>>, <<27, 91, 90>>, <<106, 106>> }

\* the chunks that readKey turns into one of keys
ChunksFor(keys) == { c \in KeyChunks : readKey(c) \in keys }

\* the chunks for each case of renderLoop's switch
CaseChunks ==
  [ quit |-> ChunksFor({"q"}),
    down |-> ChunksFor({"j", "down"}),
    up |-> ChunksFor({"k", "up"}),
    pageDown |-> ChunksFor({" ", "pagedown"}),
    pageUp |-> ChunksFor({"b", "pageup"}),
    home |-> ChunksFor({"g", "home"}),
    end |-> ChunksFor({"G", "end"}),
    search |-> ChunksFor({"/"}),
    next |-> ChunksFor({"n"}),
    prev |-> ChunksFor({"N"}),
    help |-> ChunksFor({"h", "?"}) ]

\* the keys renderLoop's switch has a case for
BoundKeys ==
  { "q", "j", "down", "k", "up", " ", "pagedown", "b", "pageup", "g", "home",
    "G", "end", "/", "n", "N", "h", "?" }

\* the chunks whose key the switch has no case for
OtherChunks == KeyChunks \ ChunksFor(BoundKeys)

-----------------------------------------------------------------------------
(* PageRenderer                                                              *)

Min(a, b) == IF a < b THEN a ELSE b
Max(a, b) == IF a > b THEN a ELSE b

\* text.repeat(n)
Repeat(text, n) == [i \in 1..(Max(n, 0) * Len(text)) |-> text[((i - 1) % Len(text)) + 1]]

\* String.prototype.padEnd with spaces
PadEnd(text, n) == text \o [i \in 1..Max(n - Len(text), 0) |-> " "]

\* colorize: an escape sequence before the text and the reset after it (the
\* parameters of the sequences are left out)
Colorize(text) == <<"ESC", "[", "m">> \o text \o <<"ESC", "[", "0", "m">>

\* borderChars: each box-drawing character is written by name (TL is the top
\* left corner, ML the left tee of the middle border), the double line as "="
\* and the thin line as "-"
borderChars ==
  [ top |-> <<"TL", "=", "TR">>,
    middle |-> <<"ML", "=", "MR">>,
    bottom |-> <<"BL", "=", "BR">>,
    thin |-> <<"-", "-", "-">> ]

renderBorder(type, width) ==
  LET chars == borderChars[type] IN
  IF type = "thin"
  THEN Colorize(Repeat(<<chars[2]>>, width))
  ELSE Colorize(<<chars[1]>> \o Repeat(<<chars[2]>>, width - 2)
                  \o <<chars[3]>>)

\* centerText: plain is the text without its decoration
centerText(text, plain, width) ==
  Repeat(<<" ">>, Max(0, (width - Len(plain)) \div 2)) \o text

\* wrapText returns its argument
wrapText(text) == text

\* String.prototype.toUpperCase
ToUpperChar(c) ==
  IF \E i \in 1..26 : Letters.lower[i] = c
  THEN Letters.upper[CHOOSE i \in 1..26 : Letters.lower[i] = c]
  ELSE c

ToUpperCase(s) == [i \in 1..Len(s) |-> ToUpperChar(s[i])]

\* line.includes("  ")
HasDoubleSpace(line) ==
  \E i \in 1..(Len(line) - 1) : line[i] = " " /\ line[i + 1] = " "

\* line.split(/\s{2,}/): the pieces between runs of two or more spaces
RECURSIVE SplitRunsAcc(_, _, _)
SplitRunsAcc(s, done, cur) ==
  IF s = <<>> THEN Append(done, cur)
  ELSE IF Len(s) >= 2 /\ s[1] = " " /\ s[2] = " "
       THEN SplitRunsAcc(TrimLeft(s), Append(done, cur), <<>>)
       ELSE SplitRunsAcc(Tail(s), done, Append(cur, Head(s)))

SplitRuns(s) == SplitRunsAcc(s, <<>>, <<>>)

\* one content line of a section
renderContentLine(line) ==
  IF HasDoubleSpace(line)
  THEN LET parts == SplitRuns(line) IN
       IF Len(parts) >= 2 /\ parts[2] # <<>>
       THEN <<" ", " ">> \o Colorize(PadEnd(parts[1], 20)) \o <<" ">>
              \o Colorize(parts[2])
       ELSE <<" ", " ">> \o Colorize(Trim(line))
  ELSE wrapText(line)

\* the lines of one section
renderSection(section, width) ==
  << renderBorder("thin", width), <<>>,
     Colorize(<<"*", " ">> \o section.title \o <<" ", "*">>), <<>> >>
  \o [i \in 1..Len(section.content) |-> renderContentLine(section.content[i])]
  \o << <<>> >>

RECURSIVE renderSections(_, _)
renderSections(sections, width) ==
  IF sections = <<>> THEN <<>>
  ELSE renderSection(Head(sections), width) \o renderSections(Tail(sections), width)

\* an optional field that is not set
Absent == "absent"

Heading ==
  [ title |-> <<"G","E","N","E","S","I","S"," ","M","A","N","U","A","L"," ","-"," ">>,
    description |-> <<"*"," ","D","E","S","C","R","I","P","T","I","O","N"," ","*">>,
    philosophy |-> <<"*"," ","P","H","I","L","O","S","O","P","H","Y"," ","*">>,
    seeAlso |-> <<"*"," ","S","E","E"," ","A","L","S","O"," ","*">>,
    author |-> <<"A","u","t","h","o","r",":"," ">>,
    version |-> <<"V","e","r","s","i","o","n",":"," ">> ]

\* PageRenderer.render, for the width the renderer was constructed with
render(page, width) ==
  LET title == Heading.title \o ToUpperCase(page.command) IN
  << renderBorder("top", width),
     centerText(Colorize(title), title, width),
     centerText(<<"ESC", "[", "m">> \o Colorize(page.synopsis), page.synopsis,
                width),
     renderBorder("middle", width),
     <<>> >>
  \o (IF page.philosophy # Absent
      THEN << Colorize(Heading.philosophy), <<>> >>
           \o [i \in 1..Len(page.philosophy) |-> Colorize(page.philosophy[i])]
           \o << <<>>, renderBorder("thin", width), <<>> >>
      ELSE <<>>)
  \o << Colorize(Heading.description), <<>> >>
  \o [i \in 1..Len(page.description) |-> wrapText(page.description[i])]
  \o << <<>> >>
  \o renderSections(page.sections, width)
  \o (IF page.seeAlso # Absent
      THEN << renderBorder("thin", width), <<>>, Colorize(Heading.seeAlso), <<>>,
              <<" ", " ">> \o JoinWith([i \in 1..Len(page.seeAlso) |->
                                          Colorize(page.seeAlso[i])], <<",", " ">>),
              <<>> >>
      ELSE <<>>)
  \o (IF page.author # Absent \/ page.version # Absent
      THEN << renderBorder("thin", width), <<>> >>
           \o (IF page.author # Absent
               THEN << Colorize(Heading.author \o page.author) >> ELSE <<>>)
           \o (IF page.version # Absent
               THEN << Colorize(Heading.version \o page.version) >> ELSE <<>>)
      ELSE <<>>)

\* new RegExp(term, "gi") throws SyntaxError for a term that is no regular
\* expression: here, one with a "[" that no "]" closes, an unbalanced
\* parenthesis or a leading quantifier
InvalidRegExp(term) ==
  \/ \E i \in 1..Len(term) :
       term[i] = "[" /\ ~\E j \in (i + 1)..Len(term) : term[j] = "]"
  \/ Len(SelectSeq(term, LAMBDA c : c = "(")) # Len(SelectSeq(term, LAMBDA c : c = ")"))
  \/ (term # <<>> /\ term[1] \in {"*", "+", "?"})

-----------------------------------------------------------------------------
(* The manual pages shown                                                    *)

\* stub: the mandatory fields only; dev: one section and a version; init:
\* every optional field; long: a description of 92 lines, so that the rendering
\* has 100 lines, with a left tee in its first and sixth line
Page ==
  [ stub |->
      [ command |-> <<"s","t","u","b">>,
        synopsis |-> <<"s","t","u","b">>,
        description |-> << <<"O","n","e"," ","l","i","n","e">> >>,
        sections |-> <<>>,
        seeAlso |-> Absent, author |-> Absent, version |-> Absent,
        philosophy |-> Absent ],
    dev |->
      [ command |-> Topic.dev,
        synopsis |-> <<"d","e","v">>,
        description |-> << <<"S","t","a","r","t">>, <<>>, <<"h","o","t">> >>,
        sections |-> << [ title |-> <<"O","P","T","S">>,
                          content |-> << <<"-","p"," "," ","P","o","r","t">>,
                                         <<"r"," ","h","o","t">>,
                                         <<"q"," "," ">> >> ] >>,
        seeAlso |-> Absent, author |-> Absent, version |-> <<"2">>,
        philosophy |-> Absent ],
    init |->
      [ command |-> Topic.init,
        synopsis |-> <<"i","n","i","t">>,
        description |-> << <<"N","e","w">> >>,
        sections |-> << [ title |-> <<"U","S","E">>,
                          content |-> << <<"r","u","n">> >> ] >>,
        seeAlso |-> << Topic.dev, Topic.genesis >>,
        author |-> <<"P","e","d","r","o">>,
        version |-> <<"2">>,
        philosophy |-> << <<"D","o"," ","o","n","e">> >> ],
    long |->
      [ command |-> <<"l","o","n","g">>,
        synopsis |-> <<"V","e","r">>,
        description |-> [i \in 1..92 |-> IF i \in {1, 6} THEN <<"a", "ML">>
                                         ELSE <<"a">>],
        sections |-> <<>>,
        seeAlso |-> Absent, author |-> Absent, version |-> Absent,
        philosophy |-> Absent ] ]

ManualPages == { Page.stub, Page.dev, Page.init }

-----------------------------------------------------------------------------
(* ManualPager                                                               *)

\* the rows and columns Deno.consoleSize() reports: terminals from three rows
\* up, narrow so that the rendered lines stay short
ConsoleSizes ==
  { [rows |-> r, columns |-> 6] : r \in { 3, 4, 5, 7, 14, 40 } }

\* prompt("") returned null (the input ended): an answer that holds no
\* character
NullInput == << "NULL" >>

\* the answers to the search prompt
SearchInputs ==
  { NullInput, <<>>, <<"V","E","R">>, <<"h","o","t">>, <<"ML">>,
    <<"z","z">>, <<"[">> }

\* Array.prototype.slice(start, end): an index brought into the array
SliceIndex(i, len) == IF i < 0 THEN Max(len + i, 0) ELSE Min(i, len)

\* String.prototype.includes
Includes(text, part) ==
  \E i \in 0..(Len(text) - Len(part)) :
    \A j \in 1..Len(part) : text[i + j] = part[j]

\* a search that tells upper case from lower case
RECURSIVE MatchingFromCaseSensitive(_, _, _)
MatchingFromCaseSensitive(ls, term, index) ==
  IF index >= Len(ls) THEN <<>>
  ELSE (IF Includes(ls[index + 1], term) THEN <<index>> ELSE <<>>)
       \o MatchingFromCaseSensitive(ls, term, index + 1)

\* the indices (from 0) of the lines that contain the term, in ascending order
RECURSIVE MatchingFrom(_, _, _)
MatchingFrom(ls, term, index) ==
  IF index >= Len(ls) THEN <<>>
  ELSE (IF Includes(ToLowerCase(ls[index + 1]), ToLowerCase(term))
        THEN <<index>> ELSE <<>>)
       \o MatchingFrom(ls, term, index + 1)

\* the documents a pager can hold
RenderedDocuments ==
  { render(page, size.columns) : page \in ManualPages \cup { Page.long },
                                 size \in ConsoleSizes }

\* lines.forEach of search(), for each document and term
MatchingLines ==
  [ ls \in RenderedDocuments, term \in SearchInputs \ { NullInput, <<>> } |->
      MatchingFrom(ls, term, 0) ]

\* line.replace(regex, colors.highlight) with the flags g and i, for a term of
\* plain characters: every occurrence, from left to right and without overlap,
\* whatever its case, is replaced by its coloured form
RECURSIVE ReplaceMatches(_, _)
ReplaceMatches(line, term) ==
  IF Len(line) < Len(term) THEN line
  ELSE IF ToLowerCase(SubSeq(line, 1, Len(term))) = ToLowerCase(term)
       THEN Colorize(SubSeq(line, 1, Len(term)))
            \o ReplaceMatches(SubSeq(line, Len(term) + 1, Len(line)), term)
       ELSE <<line[1]>> \o ReplaceMatches(Tail(line), term)

\* a highlighter that shows the line as it is when the term is no pattern
highlightSearchLenient(line, term) ==
  IF term = <<>> \/ InvalidRegExp(term)
  THEN [error |-> "none", text |-> line]
  ELSE [error |-> "none", text |-> ReplaceMatches(line, term)]

\* PageRenderer.highlightSearch: the text returned, or the error thrown by
\* new RegExp
highlightSearch(line, term) ==
  IF term = <<>> THEN [error |-> "none", text |-> line]
  ELSE IF InvalidRegExp(term) THEN [error |-> "SyntaxError", text |-> <<>>]
  ELSE [error |-> "none", text |-> ReplaceMatches(line, term)]

\* highlightSearch on each line, for each document and term
HighlightedLines ==
  [ ls \in RenderedDocuments, term \in SearchInputs \ { NullInput } |->
      [ i \in 1..Len(ls) |-> highlightSearch(ls[i], term) ] ]

\* render(): highlightSearch is called for every visible line, and what it
\* throws leaves render
RenderThrows ==
  \E i \in (SliceIndex(currentLine, Len(lines)) + 1)
            ..SliceIndex(currentLine + terminalHeight, Len(lines)) :
    HighlightedLines[lines, searchTerm][i].error # "none"

\* top of the loop: render(), then readKey() calls setRaw(true) and waits in
\* its read with the terminal raw; an exception of render leaves renderLoop
\* and display with the interval still set, before readKey is called
Rerender ==
  /\ pagerPc' = IF RenderThrows' THEN "failed" ELSE "loop"
  /\ rawMode' = ~RenderThrows'

\* the exploration stops once the top line is further than MaxOvershoot lines
\* outside the document
MaxOvershoot == 2

\* renderStatusBar's percent: Math.floor((currentLine + terminalHeight) /
\* lines.length * 100) in double arithmetic, 100 for an empty document. The
\* quotient is rounded before it is multiplied, so on the pairs of sum and
\* length listed (all there are for lengths 9, 22, 31 and 100 and sums from
\* -10 to 150) the product falls just below the whole number and the floor is
\* one less than that of the exact fraction.
percent ==
  LET sum == currentLine + terminalHeight
      roundsDown == { <<-7, 100>>, <<29, 100>>, <<57, 100>>, <<58, 100>>,
                      <<113, 100>>, <<114, 100>>, <<115, 100>>, <<116, 100>> }
  IN IF Len(lines) > 0
     THEN ((sum * 100) \div Len(lines))
          - (IF <<sum, Len(lines)>> \in roundsDown THEN 1 ELSE 0)
     ELSE 100

WithinReach ==
  /\ currentLine >= 0 - MaxOvershoot
  /\ currentLine <= Len(lines) + MaxOvershoot

\* new ManualPager(): the field initialisers, then the console size
ManualPager(size) ==
  /\ pagerPc' = "new"
  /\ lines' = <<>>
  /\ currentLine' = 0
  /\ searchTerm' = <<>>
  /\ searchResults' = <<>>
  /\ currentSearchIndex' = 0
  /\ terminalHeight' = size.rows - 4
  /\ terminalWidth' = size.columns
  /\ animationFrame' = 0
  /\ animInterval' = [own |-> 0,
                      other |-> animInterval.own + animInterval.other]
  /\ UNCHANGED <<shellVars, pages, editor, rawMode>>

PagerNew ==
  \E size \in ConsoleSizes :
    /\ pagerPc \in {"none", "new", "done", "failed"}
    /\ ManualPager(size)

\* display(page) up to the first readKey of renderLoop
displayPage(page) ==
  /\ lines' = render(page, terminalWidth)
  /\ currentLine' = 0
  /\ animInterval.own + animInterval.other < MaxTimers
  /\ animInterval' = [animInterval EXCEPT !.own = @ + 1]
  /\ UNCHANGED animationFrame
  /\ UNCHANGED <<shellVars, pages, editor, terminalHeight, terminalWidth, searchTerm,
                 searchResults, currentSearchIndex>>
  /\ Rerender

display ==
  \E page \in ManualPages :
    /\ pagerPc \in {"new", "done", "failed"}
    /\ displayPage(page)

\* the same two steps in the scenario of a long document on a console of 24
\* rows
PagerNewLong ==
  \E size \in { [rows |-> 24, columns |-> 6] } :
    /\ pagerPc \in {"none", "new", "done", "failed"}
    /\ ManualPager(size)

displayLong ==
  \E page \in { Page.long, Page.stub } :
    /\ pagerPc \in {"new", "done", "failed"}
    /\ displayPage(page)

\* one turn of renderLoop: a chunk is read and decoded, the case of the switch
\* for the key has set the top line, and render() runs again
LoopTurn(chunk, top) ==
  /\ WithinReach
  /\ currentLine' = top
  /\ UNCHANGED <<shellVars, pages, editor, lines, terminalHeight, terminalWidth,
                 searchTerm, searchResults, currentSearchIndex, animInterval,
                 animationFrame>>
  /\ Rerender

\* case "q"
KeyQuit ==
  \E chunk \in CaseChunks.quit :
    /\ pagerPc = "loop"
    /\ animInterval' = [animInterval EXCEPT !.own = @ - 1]
    /\ pagerPc' = "done"
    /\ rawMode' = FALSE
    /\ UNCHANGED animationFrame
    /\ UNCHANGED <<shellVars, pages, editor, lines, currentLine, terminalHeight,
                   terminalWidth, searchTerm, searchResults, currentSearchIndex>>

\* case "j", "down"
KeyDown ==
  \E chunk \in CaseChunks.down :
    /\ pagerPc = "loop"
    /\ LoopTurn(chunk, IF currentLine + terminalHeight < Len(lines)
                       THEN currentLine + 1 ELSE currentLine)

\* case "k", "up"
KeyUp ==
  \E chunk \in CaseChunks.up :
    /\ pagerPc = "loop"
    /\ LoopTurn(chunk, IF currentLine > 0 THEN currentLine - 1 ELSE currentLine)

\* Space that forgets the floor of 0 on the last top line
KeyPageDownNoFloor ==
  \E chunk \in CaseChunks.pageDown :
    /\ pagerPc = "loop"
    /\ LoopTurn(chunk, Min(currentLine + terminalHeight,
                           Len(lines) - terminalHeight))

\* case " ", "pagedown"
KeyPageDown ==
  \E chunk \in CaseChunks.pageDown :
    /\ pagerPc = "loop"
    /\ LoopTurn(chunk, Min(currentLine + terminalHeight,
                           Max(0, Len(lines) - terminalHeight)))

\* case "b", "pageup"
KeyPageUp ==
  \E chunk \in CaseChunks.pageUp :
    /\ pagerPc = "loop"
    /\ LoopTurn(chunk, Max(currentLine - terminalHeight, 0))

\* case "g", "home"
KeyHome ==
  \E chunk \in CaseChunks.home :
    /\ pagerPc = "loop"
    /\ LoopTurn(chunk, 0)

\* G that forgets the floor of 0
KeyEndNoFloor ==
  \E chunk \in CaseChunks.end :
    /\ pagerPc = "loop"
    /\ LoopTurn(chunk, Len(lines) - terminalHeight)

\* case "G", "end"
KeyEnd ==
  \E chunk \in CaseChunks.end :
    /\ pagerPc = "loop"
    /\ LoopTurn(chunk, Max(0, Len(lines) - terminalHeight))

\* search(): the term the prompt returned, the matching lines, the jump
search(input) ==
  LET term == IF input = NullInput THEN <<>> ELSE input
      found == IF term = <<>> THEN <<>> ELSE MatchingLines[lines, term]
  IN /\ searchTerm' = term
     /\ IF term # <<>>
        THEN /\ searchResults' = found
             /\ IF Len(found) > 0
                THEN /\ currentSearchIndex' = 0
                     /\ currentLine' = found[1]
                ELSE UNCHANGED <<currentSearchIndex, currentLine>>
        ELSE UNCHANGED <<searchResults, currentSearchIndex, currentLine>>

\* case "/"
KeySearch ==
  \E chunk \in CaseChunks.search, input \in SearchInputs :
    /\ pagerPc = "loop"
    /\ WithinReach
    /\ search(input)
    /\ UNCHANGED <<shellVars, pages, editor, lines, terminalHeight, terminalWidth,
                   animInterval, animationFrame>>
    /\ Rerender

\* an index that stops at the last match
nextSearchIndexNoWrap(index, length) == Min(index + 1, length - 1)

\* the index nextSearchResult moves to
nextSearchIndex(index, length) == (index + 1) % length

\* the index prevSearchResult moves to
prevSearchIndex(index, length) == IF index = 0 THEN length - 1 ELSE index - 1

\* a jump to the match the index was at before it moved
nextSearchResultOldIndex ==
  IF Len(searchResults) = 0
  THEN UNCHANGED <<currentSearchIndex, currentLine>>
  ELSE /\ currentSearchIndex' =
            nextSearchIndex(currentSearchIndex, Len(searchResults))
       /\ currentLine' = searchResults[currentSearchIndex + 1]

\* nextSearchResult()
nextSearchResult ==
  IF Len(searchResults) = 0
  THEN UNCHANGED <<currentSearchIndex, currentLine>>
  ELSE /\ currentSearchIndex' =
            nextSearchIndex(currentSearchIndex, Len(searchResults))
       /\ currentLine' = searchResults[currentSearchIndex' + 1]

\* prevSearchResult()
prevSearchResult ==
  IF Len(searchResults) = 0
  THEN UNCHANGED <<currentSearchIndex, currentLine>>
  ELSE /\ currentSearchIndex' =
            prevSearchIndex(currentSearchIndex, Len(searchResults))
       /\ currentLine' = searchResults[currentSearchIndex' + 1]

\* case "n"
KeyNext ==
  \E chunk \in CaseChunks.next :
    /\ pagerPc = "loop"
    /\ WithinReach
    /\ nextSearchResult
    /\ UNCHANGED <<shellVars, pages, editor, lines, terminalHeight, terminalWidth,
                   searchTerm, searchResults, animInterval, animationFrame>>
    /\ Rerender

\* case "N"
KeyPrev ==
  \E chunk \in CaseChunks.prev :
    /\ pagerPc = "loop"
    /\ WithinReach
    /\ prevSearchResult
    /\ UNCHANGED <<shellVars, pages, editor, lines, terminalHeight, terminalWidth,
                   searchTerm, searchResults, animInterval, animationFrame>>
    /\ Rerender

\* case "h", "?": showHelp() prints the overlay and waits for a key in a
\* readKey of its own, the terminal raw again
KeyHelp ==
  \E chunk \in CaseChunks.help :
    /\ pagerPc = "loop"
    /\ pagerPc' = "help"
    /\ rawMode' = TRUE
    /\ UNCHANGED <<shellVars, pages, editor, lines, currentLine, terminalHeight,
                   terminalWidth, searchTerm, searchResults, currentSearchIndex,
                   animInterval, animationFrame>>

\* an overlay that hands its key to renderLoop's switch, where q quits
HelpDismissObeysQuit ==
  \E chunk \in KeyChunks :
    /\ pagerPc = "help"
    /\ UNCHANGED <<shellVars, pages, editor, lines, currentLine, terminalHeight,
                   terminalWidth, searchTerm, searchResults, currentSearchIndex>>
    /\ UNCHANGED animationFrame
    /\ IF readKey(chunk) = "q"
       THEN /\ pagerPc' = "done"
            /\ rawMode' = FALSE
            /\ animInterval' = [animInterval EXCEPT !.own = @ - 1]
       ELSE UNCHANGED animInterval /\ Rerender

\* showHelp() returns on any chunk; its key is dropped
HelpDismiss ==
  \E chunk \in KeyChunks :
    /\ pagerPc = "help"
    /\ UNCHANGED <<shellVars, pages, editor, lines, currentLine, terminalHeight,
                   terminalWidth, searchTerm, searchResults, currentSearchIndex,
                   animInterval, animationFrame>>
    /\ Rerender

\* a readKey that calls setRaw(false) only after a read that resolved
ReadKeyFailsNoFinally ==
  /\ pagerPc \in {"loop", "help"}
  /\ pagerPc' = "failed"
  /\ UNCHANGED <<shellVars, pages, editor, lines, currentLine, terminalHeight,
                 terminalWidth, searchTerm, searchResults, currentSearchIndex,
                 animInterval, animationFrame, rawMode>>

\* Deno.stdin.read rejects inside readKey, of renderLoop or of showHelp: the
\* finally clause of readKey calls setRaw(false), and the error leaves
\* readKey, renderLoop and display with the interval still set
ReadKeyFails ==
  /\ pagerPc \in {"loop", "help"}
  /\ pagerPc' = "failed"
  /\ rawMode' = FALSE
  /\ UNCHANGED <<shellVars, pages, editor, lines, currentLine, terminalHeight,
                 terminalWidth, searchTerm, searchResults, currentSearchIndex,
                 animInterval, animationFrame>>

\* a key the switch has no case for
KeyOther ==
  \E chunk \in OtherChunks :
    /\ pagerPc = "loop"
    /\ LoopTurn(chunk, currentLine)

NextScroll ==
  \/ KeyDown
  \/ KeyUp
  \/ KeyPageDown
  \/ KeyPageUp
  \/ KeyHome
  \/ KeyEnd

NextNav ==
  \/ PagerNew
  \/ display
  \/ NextScroll

\* the pager's specifications start in one root directory
InitPager == Init /\ rootDir = RepoDir

\* a pager driven by the navigation keys only
SpecNav == InitPager /\ [][NextNav]_vars

NextKey ==
  \/ NextScroll
  \/ KeyQuit
  \/ KeySearch
  \/ KeyNext
  \/ KeyPrev
  \/ KeyHelp
  \/ HelpDismiss
  \/ KeyOther

NextPager ==
  \/ PagerNew
  \/ display
  \/ NextKey

\* a pager driven by every key
SpecPager == InitPager /\ [][NextPager]_vars

NextLong ==
  \/ PagerNewLong
  \/ displayLong
  \/ NextKey

\* a pager driven by every key, on the long document and a console of 24 rows
SpecLong == InitPager /\ [][NextLong]_vars

-----------------------------------------------------------------------------
(* The shell's line editor: readLine                                         *)

\* the longest line typed
MaxLine == 4

\* a slice that always starts at the first element
SliceFromFirst(s, start, end) == SubSeq(s, 1, SliceIndex(end, Len(s)))

\* String.prototype.slice(start, end)
Slice(s, start, end) ==
  SubSeq(s, SliceIndex(start, Len(s)) + 1, SliceIndex(end, Len(s)))

\* the chunks typed at the prompt: the letters a, b, c and X, Backspace, Enter
\* as line feed and as carriage return, Ctrl-C, Ctrl-D, the four arrows, Escape
\* alone, an escape sequence cut short, an empty read, two letters in one read
\* and the end of input
EditorChunks ==
  { <<97>>, <<98>>, <<99>>, <<88>>, <<127>>, <<10>>, <<13>>, <<3>>, <<4>>,
    <<27, 91, 68>>, <<27, 91, 67>>, <<27, 91, 65>>, <<27, 91, 66>>,
    <<27>>, <<27, 91>>, <<>>, <<97, 98>>, Eof }

\* an editor that takes a byte below 0x20 for a character to insert
readLineStepNoLowerLimit(st, chunk) ==
  IF chunk = Eof THEN [st EXCEPT !.ret = "null"]
  ELSE IF Len(chunk) = 1 /\ chunk[1] = 4
       THEN IF Len(st.line) = 0 THEN [st EXCEPT !.ret = "null"] ELSE st
  ELSE IF Len(chunk) = 1 /\ chunk[1] = 3
       THEN [st EXCEPT !.ret = "string", !.value = <<>>]
  ELSE IF Len(chunk) = 1 /\ chunk[1] = 127
       THEN IF st.cursor > 0
            THEN [st EXCEPT !.line = Slice(st.line, 0, st.cursor - 1)
                                       \o Slice(st.line, st.cursor, Len(st.line)),
                            !.cursor = st.cursor - 1]
            ELSE st
  ELSE IF Len(chunk) = 1 /\ chunk[1] \in {10, 13}
       THEN [st EXCEPT !.ret = "string", !.value = st.line]
  ELSE IF Len(chunk) = 3 /\ chunk[1] = 27 /\ chunk[2] = 91
       THEN IF chunk[3] = 68 /\ st.cursor > 0
            THEN [st EXCEPT !.cursor = st.cursor - 1]
            ELSE IF chunk[3] = 67 /\ st.cursor < Len(st.line)
            THEN [st EXCEPT !.cursor = st.cursor + 1]
            ELSE st
  ELSE IF Len(chunk) = 1 /\ chunk[1] <= 126
       THEN [st EXCEPT !.line = Slice(st.line, 0, st.cursor)
                                  \o << IF chunk[1] = 27 THEN "ESC"
                                        ELSE FromCharCode(chunk[1]) >>
                                  \o Slice(st.line, st.cursor, Len(st.line)),
                       !.cursor = st.cursor + 1]
  ELSE st

\* an editor whose Left arrow moves the cursor wherever it is
readLineStepLeftUnguarded(st, chunk) ==
  IF chunk = Eof THEN [st EXCEPT !.ret = "null"]
  ELSE IF Len(chunk) = 1 /\ chunk[1] = 4
       THEN IF Len(st.line) = 0 THEN [st EXCEPT !.ret = "null"] ELSE st
  ELSE IF Len(chunk) = 1 /\ chunk[1] = 3
       THEN [st EXCEPT !.ret = "string", !.value = <<>>]
  ELSE IF Len(chunk) = 1 /\ chunk[1] = 127
       THEN IF st.cursor > 0
            THEN [st EXCEPT !.line = Slice(st.line, 0, st.cursor - 1)
                                       \o Slice(st.line, st.cursor, Len(st.line)),
                            !.cursor = st.cursor - 1]
            ELSE st
  ELSE IF Len(chunk) = 1 /\ chunk[1] \in {10, 13}
       THEN [st EXCEPT !.ret = "string", !.value = st.line]
  ELSE IF Len(chunk) = 3 /\ chunk[1] = 27 /\ chunk[2] = 91
       THEN IF chunk[3] = 68
            THEN [st EXCEPT !.cursor = st.cursor - 1]
            ELSE IF chunk[3] = 67 /\ st.cursor < Len(st.line)
            THEN [st EXCEPT !.cursor = st.cursor + 1]
            ELSE st
  ELSE IF Len(chunk) = 1 /\ chunk[1] >= 32 /\ chunk[1] <= 126
       THEN [st EXCEPT !.line = Slice(st.line, 0, st.cursor)
                                  \o << FromCharCode(chunk[1]) >>
                                  \o Slice(st.line, st.cursor, Len(st.line)),
                       !.cursor = st.cursor + 1]
  ELSE st

\* an editor that returns null on Ctrl-D whatever the line holds
readLineStepCtrlDAlways(st, chunk) ==
  IF chunk = Eof THEN [st EXCEPT !.ret = "null"]
  ELSE IF Len(chunk) = 1 /\ chunk[1] = 4
       THEN [st EXCEPT !.ret = "null"]
  ELSE IF Len(chunk) = 1 /\ chunk[1] = 3
       THEN [st EXCEPT !.ret = "string", !.value = <<>>]
  ELSE IF Len(chunk) = 1 /\ chunk[1] = 127
       THEN IF st.cursor > 0
            THEN [st EXCEPT !.line = Slice(st.line, 0, st.cursor - 1)
                                       \o Slice(st.line, st.cursor, Len(st.line)),
                            !.cursor = st.cursor - 1]
            ELSE st
  ELSE IF Len(chunk) = 1 /\ chunk[1] \in {10, 13}
       THEN [st EXCEPT !.ret = "string", !.value = st.line]
  ELSE IF Len(chunk) = 3 /\ chunk[1] = 27 /\ chunk[2] = 91
       THEN IF chunk[3] = 68 /\ st.cursor > 0
            THEN [st EXCEPT !.cursor = st.cursor - 1]
            ELSE IF chunk[3] = 67 /\ st.cursor < Len(st.line)
            THEN [st EXCEPT !.cursor = st.cursor + 1]
            ELSE st
  ELSE IF Len(chunk) = 1 /\ chunk[1] >= 32 /\ chunk[1] <= 126
       THEN [st EXCEPT !.line = Slice(st.line, 0, st.cursor)
                                  \o << FromCharCode(chunk[1]) >>
                                  \o Slice(st.line, st.cursor, Len(st.line)),
                       !.cursor = st.cursor + 1]
  ELSE st

\* one turn of the while loop of readLine on the chunk read: the end of input,
\* Ctrl-D, Ctrl-C, Backspace, Enter, the arrows, a printable character; any
\* other chunk is dropped
readLineStep(st, chunk) ==
  IF chunk = Eof THEN [st EXCEPT !.ret = "null"]
  ELSE IF Len(chunk) = 1 /\ chunk[1] = 4
       THEN IF Len(st.line) = 0 THEN [st EXCEPT !.ret = "null"] ELSE st
  ELSE IF Len(chunk) = 1 /\ chunk[1] = 3
       THEN [st EXCEPT !.ret = "string", !.value = <<>>]
  ELSE IF Len(chunk) = 1 /\ chunk[1] = 127
       THEN IF st.cursor > 0
            THEN [st EXCEPT !.line = Slice(st.line, 0, st.cursor - 1)
                                       \o Slice(st.line, st.cursor, Len(st.line)),
                            !.cursor = st.cursor - 1]
            ELSE st
  ELSE IF Len(chunk) = 1 /\ chunk[1] \in {10, 13}
       THEN [st EXCEPT !.ret = "string", !.value = st.line]
  ELSE IF Len(chunk) = 3 /\ chunk[1] = 27 /\ chunk[2] = 91
       THEN IF chunk[3] = 68 /\ st.cursor > 0
            THEN [st EXCEPT !.cursor = st.cursor - 1]
            ELSE IF chunk[3] = 67 /\ st.cursor < Len(st.line)
            THEN [st EXCEPT !.cursor = st.cursor + 1]
            ELSE st
  ELSE IF Len(chunk) = 1 /\ chunk[1] >= 32 /\ chunk[1] <= 126
       THEN [st EXCEPT !.line = Slice(st.line, 0, st.cursor)
                                  \o << FromCharCode(chunk[1]) >>
                                  \o Slice(st.line, st.cursor, Len(st.line)),
                       !.cursor = st.cursor + 1]
  ELSE st

\* start() calls readLine, at first and after each processCommand: an empty
\* line, the cursor at 0, the terminal raw
readLineCall ==
  /\ replPc = "prompt"
  /\ editor.ret = "none"
  /\ editor' = [line |-> <<>>, cursor |-> 0, ret |-> "reading", value |-> <<>>]
  /\ rawMode' = TRUE
  /\ UNCHANGED <<shellVars, pages, pagerVars>>

\* Deno.stdin.read delivers a chunk to readLine, which goes on reading or
\* returns; the line typed and the lines recorded before it hold no more
\* than MaxLine characters together
readLineRead ==
  \E chunk \in EditorChunks :
    /\ editor.ret = "reading"
    /\ LET RECURSIVE Typed(_)
           Typed(h) == IF h = <<>> THEN 0 ELSE Len(Head(h)) + Typed(Tail(h))
       IN Len(readLineStep(editor, chunk).line) + Typed(history) <= MaxLine
    /\ editor' = readLineStep(editor, chunk)
    /\ rawMode' = (editor'.ret = "reading")
    /\ UNCHANGED <<shellVars, pages, pagerVars>>

\* Deno.stdin.read rejects inside readLine: the finally clause calls
\* setRaw(false), the line typed so far is lost, and the error leaves
\* readLine and start(), which has no catch
readLineFails ==
  /\ replPc = "prompt"
  /\ editor.ret = "reading"
  /\ replPc' = "failed"
  /\ editor' = [line |-> <<>>, cursor |-> 0, ret |-> "none", value |-> <<>>]
  /\ rawMode' = FALSE
  /\ UNCHANGED <<running, history, commandCount, rootDir, currentDir, target,
                 lastOut, fsCalls, pages, pagerVars>>

-----------------------------------------------------------------------------
(* ManualRegistry                                                            *)

\* the names passed to the registry, some in more than one spelling
RegistryNames ==
  { <<"a","l","p","h","a">>, <<"b","e","t","a">>, <<"o","m","e","g","a">>,
    <<"z","z","z">>, <<"a","b","c">>, <<"A","B","C">>,
    Topic.dev, <<"D","e","v">>, <<"D","E","V">> }

\* the pages passed to register
RegisteredPages == { "pageA", "pageB" }

\* ManualRegistry.get
RegistryGet(command) ==
  IF ToLowerCase(command) \in DOMAIN pages
  THEN pages[ToLowerCase(command)] ELSE "undefined"

\* a size counted once, when the registry is constructed
RegistrySizeAtConstruction == Cardinality(DOMAIN InitialPages)

\* ManualRegistry.size
RegistrySize == Cardinality(DOMAIN pages)

\* the order of Array.prototype.sort without a comparator: by code units, a
\* prefix before the strings it starts
StringLess(a, b) ==
  LET code(c) == CHOOSE i \in 1..Len(PrintableChars) : PrintableChars[i] = c
  IN \E i \in 1..Len(b) :
       /\ i <= Len(a) + 1
       /\ \A j \in 1..(i - 1) : a[j] = b[j]
       /\ i = Len(a) + 1 \/ code(a[i]) < code(b[i])

\* a list in the order of the strings read backwards from their first letter
RECURSIVE SortKeysDescending(_)
SortKeysDescending(keys) ==
  IF keys = {} THEN <<>>
  ELSE LET last == CHOOSE k \in keys : \A other \in keys \ {k} : StringLess(other, k)
       IN <<last>> \o SortKeysDescending(keys \ {last})

\* Array.from(keys).sort()
RECURSIVE SortKeys(_)
SortKeys(keys) ==
  IF keys = {} THEN <<>>
  ELSE LET first == CHOOSE k \in keys : \A other \in keys \ {k} : StringLess(k, other)
       IN <<first>> \o SortKeys(keys \ {first})

\* ManualRegistry.list
RegistryList == SortKeys(DOMAIN pages)

\* a registry that stores the name as it is spelled
registerAsSpelled(command, page) ==
  /\ pages' = [k \in DOMAIN pages \cup {command} |->
                 IF k = command THEN page ELSE pages[k]]
  /\ UNCHANGED <<shellVars, pagerVars, rawMode, editor>>

\* a registry whose change reaches the lines of the pager that is open
registerClearsLines(command, page) ==
  /\ pages' = [k \in DOMAIN pages \cup {ToLowerCase(command)} |->
                 IF k = ToLowerCase(command) THEN page ELSE pages[k]]
  /\ lines' = <<>>
  /\ UNCHANGED <<shellVars, rawMode, editor, pagerPc, currentLine,
                 terminalHeight, terminalWidth, searchTerm, searchResults,
                 currentSearchIndex, animInterval, animationFrame>>

\* ManualRegistry.register
register(command, page) ==
  /\ pages' = [k \in DOMAIN pages \cup {ToLowerCase(command)} |->
                 IF k = ToLowerCase(command) THEN page ELSE pages[k]]
  /\ UNCHANGED <<shellVars, pagerVars, rawMode, editor>>

\* a delete that reports success whether or not the key was present
MapDeleteAlwaysTrue(command) ==
  [pages |-> [k \in DOMAIN pages \ {ToLowerCase(command)} |-> pages[k]],
   result |-> TRUE]

\* this.pages.delete(command.toLowerCase()): the map afterwards and the
\* boolean returned, true iff the key was present
MapDelete(command) ==
  [pages |-> [k \in DOMAIN pages \ {ToLowerCase(command)} |-> pages[k]],
   result |-> ToLowerCase(command) \in DOMAIN pages]

\* ManualRegistry.unregister
unregister(command) ==
  /\ pages' = MapDelete(command).pages
  /\ UNCHANGED <<shellVars, pagerVars, rawMode, editor>>

\* showManual of the command line: what it did for the topic, given whether
\* ManualPager.display throws
showManual(topic, displayThrows) ==
  IF RegistryGet(ToLowerCase(topic)) = "undefined" THEN "absent"
  ELSE IF displayThrows THEN "thrown"
  ELSE "displayed"

\* manCommand exported for library use: the exit code it returns
manCommandExit(args, displayThrows) ==
  LET topic == IF args # <<>> /\ args[1] # <<>> THEN args[1]
               ELSE Topic.genesis
  IN IF showManual(topic, displayThrows) = "thrown" THEN 1 ELSE 0

NextRegistry ==
  \/ \E command \in RegistryNames, page \in RegisteredPages :
       register(command, page)
  \/ \E command \in RegistryNames : unregister(command)

\* a registry on which register and unregister are called in any order
SpecRegistry == InitPager /\ [][NextRegistry]_vars

-----------------------------------------------------------------------------
(* A pager session opened by showManual, with the registry changed and the  *)
(* animation timer firing while the document is displayed                    *)

\* the timer callback runs at most this many times in one session
MaxFrames == 2

\* the names register and unregister are called with during a session: the
\* topic that is displayed, in two spellings
SessionNames == { Topic.dev, <<"D","E","V">> }

\* showManual(topic) for a topic the registry has, on a console of the given
\* size: registry.get, then new ManualPager() and display(page) up to the
\* first readKey; a page that register put there is the stub page
showManualDisplay(topic, size) ==
  /\ RegistryGet(ToLowerCase(topic)) # "undefined"
  /\ lines' = render(CASE RegistryGet(ToLowerCase(topic)) = "devPage" -> Page.dev
                       [] RegistryGet(ToLowerCase(topic)) = "initPage" -> Page.init
                       [] OTHER -> Page.stub,
                     size.columns)
  /\ currentLine' = 0
  /\ searchTerm' = <<>>
  /\ searchResults' = <<>>
  /\ currentSearchIndex' = 0
  /\ terminalHeight' = size.rows - 4
  /\ terminalWidth' = size.columns
  /\ animationFrame' = 0
  /\ animInterval.own + animInterval.other < MaxTimers
  /\ animInterval' = [own |-> 1,
                      other |-> animInterval.own + animInterval.other]
  /\ Rerender

\* showManual called by the command line tool
showManualPage ==
  \E topic \in { Topic.dev, <<"D","E","V">>, Topic.init },
     size \in { [rows |-> r, columns |-> 6] : r \in { 7, 14 } } :
    /\ pagerPc \in {"none", "done", "failed"}
    /\ showManualDisplay(topic, size)
    /\ UNCHANGED <<shellVars, pages, editor>>

\* a timer callback that scrolls the view
AnimTickScrolls ==
  /\ animInterval.own > 0
  /\ animationFrame < MaxFrames
  /\ animationFrame' = animationFrame + 1
  /\ currentLine' = currentLine + 1
  /\ UNCHANGED <<shellVars, pages, editor, rawMode, pagerPc, lines,
                 terminalHeight, terminalWidth, searchTerm, searchResults,
                 currentSearchIndex, animInterval>>

\* the callback of setInterval(..., 50), run while the interval is set and
\* the loop is suspended in a read: this.animationFrame++
AnimTick ==
  /\ animInterval.own > 0
  /\ animationFrame < MaxFrames
  /\ animationFrame' = animationFrame + 1
  /\ UNCHANGED <<shellVars, pages, editor, rawMode, pagerPc, lines, currentLine,
                 terminalHeight, terminalWidth, searchTerm, searchResults,
                 currentSearchIndex, animInterval>>

NextSession ==
  \/ showManualPage
  \/ KeyDown
  \/ KeyPageDown
  \/ KeySearch
  \/ KeyNext
  \/ KeyHelp
  \/ HelpDismiss
  \/ KeyQuit
  \/ AnimTick
  \/ \E command \in SessionNames, page \in RegisteredPages :
       register(command, page)
  \/ \E command \in SessionNames : unregister(command)

\* sessions of the pager opened through the registry, one after another
SpecSession == InitPager /\ [][NextSession]_vars

-----------------------------------------------------------------------------
(* The shell's loop: start() and processCommand                              *)

\* a loop that ends when a command met an error of the filesystem
ReplTurnEndsOnError(line) ==
  /\ replPc = "prompt"
  /\ editor.ret = "none"
  /\ processCommand(line)
  /\ UNCHANGED <<rootDir, pages, editor>>
  /\ IF Trim(line) # <<>> /\ lastOut' = "manual"
     THEN /\ replPc' = "man"
          /\ showManualDisplay(ArgsOf(line)[1], [rows |-> 24, columns |-> 6])
     ELSE /\ replPc' = IF running' /\ lastOut' # "error" THEN "prompt" ELSE "done"
          /\ rawMode' = FALSE
          /\ UNCHANGED pagerVars

\* one turn of the loop, from the head of the while loop: readLine is
\* called, reads with the terminal raw and returns line with the terminal
\* cooked again, and processCommand runs the line; for man with a topic of
\* the registry, up to the first readKey of the pager that showManual opens,
\* on a console of 24 rows
ReplTurn(line) ==
  /\ replPc = "prompt"
  /\ editor.ret = "none"
  /\ processCommand(line)
  /\ UNCHANGED <<rootDir, pages, editor>>
  /\ IF Trim(line) # <<>> /\ lastOut' = "manual"
     THEN /\ replPc' = "man"
          /\ showManualDisplay(ArgsOf(line)[1], [rows |-> 24, columns |-> 6])
     ELSE /\ replPc' = IF running' THEN "prompt" ELSE "done"
          /\ rawMode' = FALSE
          /\ UNCHANGED pagerVars

\* readLine returns null at end of input: exit(), then the loop breaks
ReplEof ==
  /\ replPc = "prompt"
  /\ replPc' = "done"
  /\ exit
  /\ rawMode' = FALSE
  /\ UNCHANGED <<history, commandCount, rootDir, currentDir, target, lastOut,
                 fsCalls, pages, editor, pagerVars>>

\* a turn of the loop in which Deno.stdin.read rejects: readLine is called,
\* its finally clause calls setRaw(false), and the error leaves readLine and
\* start(), which has no catch
ReplReadFails ==
  /\ replPc = "prompt"
  /\ editor.ret = "none"
  /\ replPc' = "failed"
  /\ rawMode' = FALSE
  /\ UNCHANGED <<running, history, commandCount, rootDir, currentDir, target,
                 lastOut, fsCalls, pages, editor, pagerVars>>

\* display has returned or thrown: showManual's pager is dropped, an
\* interval it left set stays set; the library's manCommand returns 0, or
\* catches the error and returns 1, and processCommand returns to the loop
ManReturns ==
  /\ replPc = "man"
  /\ pagerPc \in {"done", "failed"}
  /\ replPc' = "prompt"
  /\ pagerPc' = "none"
  /\ lines' = <<>>
  /\ currentLine' = 0
  /\ terminalHeight' = DefaultTerminalHeight
  /\ terminalWidth' = DefaultTerminalWidth
  /\ searchTerm' = <<>>
  /\ searchResults' = <<>>
  /\ currentSearchIndex' = 0
  /\ animationFrame' = 0
  /\ animInterval' = [own |-> 0,
                      other |-> animInterval.own + animInterval.other]
  /\ UNCHANGED <<running, history, commandCount, rootDir, currentDir, target,
                 lastOut, fsCalls, pages, editor, rawMode>>

ReplBlank ==
  \E line \in BlankLines :
    /\ replPc = "prompt"
    /\ ReplTurn(line)

ReplMan ==
  \E line \in LinesOf({Word.man}) :
    /\ commandCount < MaxCommands
    /\ ReplTurn(line)

ReplCd ==
  \E line \in LinesOf({Word.cd}) :
    /\ commandCount < MaxCommands
    /\ ReplTurn(line)

ReplLs ==
  \E line \in LinesOf({Word.ls}) :
    /\ commandCount < MaxCommands
    /\ ReplTurn(line)

ReplPwd ==
  \E line \in LinesOf({Word.pwd}) :
    /\ commandCount < MaxCommands
    /\ ReplTurn(line)

ReplCat ==
  \E line \in LinesOf({Word.cat}) :
    /\ commandCount < MaxCommands
    /\ ReplTurn(line)

ReplLess ==
  \E line \in LinesOf({Word.less, Word.more}) :
    /\ commandCount < MaxCommands
    /\ ReplTurn(line)

ReplTree ==
  \E line \in LinesOf({Word.tree}) :
    /\ commandCount < MaxCommands
    /\ ReplTurn(line)

ReplClear ==
  \E line \in LinesOf({Word.clear, Word.cls}) :
    /\ commandCount < MaxCommands
    /\ ReplTurn(line)

ReplHelp ==
  \E line \in LinesOf({Word.help, Word.question}) :
    /\ commandCount < MaxCommands
    /\ ReplTurn(line)

ReplHistory ==
  \E line \in LinesOf({Word.history}) :
    /\ commandCount < MaxCommands
    /\ ReplTurn(line)

ReplExit ==
  \E line \in LinesOf({Word.exit, Word.quit, Word.q}) :
    /\ commandCount < MaxCommands
    /\ ReplTurn(line)

ReplUnknown ==
  \E line \in UnknownLines :
    /\ commandCount < MaxCommands
    /\ ReplTurn(line)

Next ==
  \/ Start
  \/ ReplEof
  \/ ReplReadFails
  \/ ReplBlank
  \/ ReplMan
  \/ ReplCd
  \/ ReplLs
  \/ ReplPwd
  \/ ReplCat
  \/ ReplLess
  \/ ReplTree
  \/ ReplClear
  \/ ReplHelp
  \/ ReplHistory
  \/ ReplExit
  \/ ReplUnknown
  \/ KeySearch
  \/ KeyQuit
  \/ ReadKeyFails
  \/ AnimTick
  \/ ManReturns

Spec == Init /\ [][Next]_vars

\* readLine has returned a line: start() awaits processCommand(input), then
\* goes round the loop; for man with a topic of the registry processCommand
\* waits in the pager that showManual opens, as in ReplTurn, and the loop goes
\* on when ManReturns (the keys of EditorChunks spell no such line)
ReplProcesses ==
  /\ replPc = "prompt"
  /\ editor.ret = "string"
  /\ commandCount < MaxCommands
  /\ processCommand(editor.value)
  /\ editor' = [line |-> <<>>, cursor |-> 0, ret |-> "none", value |-> <<>>]
  /\ UNCHANGED <<rootDir, pages>>
  /\ IF Trim(editor.value) # <<>> /\ lastOut' = "manual"
     THEN /\ replPc' = "man"
          /\ showManualDisplay(ArgsOf(editor.value)[1],
                               [rows |-> 24, columns |-> 6])
     ELSE /\ replPc' = IF running' THEN "prompt" ELSE "done"
          /\ rawMode' = FALSE
          /\ UNCHANGED pagerVars

\* readLine has returned null: start() calls exit() and leaves the loop
ReplReadsNull ==
  /\ editor.ret = "null"
  /\ ReplEof

NextEditor ==
  \/ Start
  \/ readLineCall
  \/ readLineRead
  \/ readLineFails
  \/ ReplProcesses
  \/ ReplReadsNull

\* the shell reading lines at its prompt, chunk by chunk
SpecEditor == InitPager /\ [][NextEditor]_vars

NextTerminal ==
  \/ Start
  \/ readLineCall
  \/ readLineRead
  \/ readLineFails
  \/ ReplProcesses
  \/ ReplReadsNull
  \/ ReplMan
  \/ NextScroll
  \/ KeyQuit
  \/ KeyHelp
  \/ HelpDismiss
  \/ ReadKeyFails
  \/ ManReturns

\* the shell reading its lines chunk by chunk, and the pager that man opens
\* between two lines, on one terminal, with reads that succeed and reads
\* that fail
SpecTerminal == InitPager /\ [][NextTerminal]_vars

-----------------------------------------------------------------------------
(* Properties of the shell                                                   *)

\* p is root or lies below it: the segments of root begin those of p
IsUnder(root, p) ==
  LET r == Segs(root)
      q == Segs(p)
  IN Len(r) <= Len(q) /\ SubSeq(q, 1, Len(r)) = r

\* the commands that take a path
PathCommands == { Word.cd, Word.ls, Word.cat, Word.less, Word.more, Word.tree }

\* the last recorded command, its argument list, and whether some segment of
\* its first argument is ".."
LastCommand == CommandOf(Last(history))
LastArgs == ArgsOf(Last(history))
HasDotDotSegment(arg) ==
  \E i \in 1..Len(SplitOn(arg, "/")) : SplitOn(arg, "/")[i] = Seg.up

\* this step recorded a path command with a first argument
PathCommandStep ==
  /\ history' # history
  /\ CommandOf(Last(history')) \in PathCommands
  /\ ArgsOf(Last(history')) # <<>>

StepArg == ArgsOf(Last(history'))[1]

\* C1: every path a command hands to the filesystem is the root or below it,
\* whatever chain of ".." segments the argument holds.
C1_FsPathsInsideRoot ==
  \A c \in fsCalls : IsUnder(rootDir, c.path)

\* a command whose argument holds ".." reached the filesystem
C1_Witness ==
  /\ rootDir = RepoDir
  /\ history # <<>>
  /\ LastCommand \in PathCommands
  /\ LastArgs # <<>>
  /\ HasDotDotSegment(LastArgs[1])
  /\ ~StartsWith(LastArgs[1], Seg.slash)
  /\ fsCalls # {}

\* C2: currentDir is the root or below it in every state, and the root never
\* changes.
C2_CurrentDirUnderRoot ==
  /\ [](IsUnder(rootDir, currentDir))
  /\ [][rootDir' = rootDir]_vars

\* two commands ran and the second found the shell below the root
C2_Witness ==
  /\ Len(history) = 2
  /\ currentDir # rootDir
  /\ IsUnder(rootDir, currentDir)

\* C3: a path command whose argument the sandbox turns away prints the denial
\* and makes no filesystem call.
C3_DeniedMakesNoFsCall ==
  [][ (PathCommandStep /\ ~isPathAllowed(normalizePath(StepArg)))
        => (lastOut' = "denied" /\ fsCalls' = {}) ]_vars

\* ls was turned away
C3_Witness ==
  /\ history # <<>>
  /\ LastCommand = Word.ls
  /\ LastArgs # <<>>
  /\ lastOut = "denied"
  /\ fsCalls = {}

\* C4: a path command whose argument starts with "/" is turned away like any
\* other denial: the message, and no filesystem call.
C4_AbsoluteArgDenied ==
  (/\ history # <<>>
   /\ LastCommand \in PathCommands
   /\ LastArgs # <<>>
   /\ StartsWith(LastArgs[1], Seg.slash))
    => (lastOut = "denied" /\ fsCalls = {})

\* C5: cd with an argument moves currentDir only to a path that passed the
\* sandbox and is an existing directory; otherwise currentDir stays.
C5_CdChangesOnlyOnSuccess ==
  [][ (PathCommandStep /\ CommandOf(Last(history')) = Word.cd)
        => LET t == normalizePath(StepArg) IN
           IF isPathAllowed(t) /\ Stat(t) = "dir"
           THEN currentDir' = t
           ELSE currentDir' = currentDir ]_vars

\* cd was given a regular file below the root and stayed
C5_Witness ==
  /\ history # <<>>
  /\ LastCommand = Word.cd
  /\ LastArgs # <<>>
  /\ lastOut = "notdir"
  /\ currentDir # rootDir

\* C6: with root /repo and currentDir /repo/sub, cd .. moves to /repo and
\* cd ../.. is denied and leaves currentDir at /repo/sub.
C6_BoundaryIsRootInclusive ==
  [][ (rootDir = RepoDir /\ currentDir = SubDir /\ history' # history)
        => /\ Last(history') = Line2(Word.cd, PathArg.up)
                => (currentDir' = RepoDir /\ lastOut' = "none")
           /\ Last(history') = Line2(Word.cd, PathArg.upUp)
                => (currentDir' = SubDir /\ lastOut' = "denied") ]_vars

\* cd ../.. was denied in /repo/sub
C6_Witness ==
  /\ rootDir = RepoDir
  /\ currentDir = SubDir
  /\ Len(history) = 2
  /\ history[2] = Line2(Word.cd, PathArg.upUp)
  /\ lastOut = "denied"

\* cd .. led from /repo/sub to /repo
C6_WitnessUp ==
  /\ rootDir = RepoDir
  /\ currentDir = RepoDir
  /\ Len(history) = 2
  /\ history[1] = Line2(Word.cd, PathName.sub)
  /\ history[2] = Line2(Word.cd, PathArg.up)
  /\ lastOut = "none"

\* C7: a relative argument is accepted exactly when its canonical path is the
\* root or below it.
C7_AcceptedIffInside ==
  [][ (PathCommandStep /\ ~StartsWith(StepArg, Seg.slash))
        => ((lastOut' # "denied")
              <=> IsUnder(rootDir, resolve(<<currentDir, StepArg>>))) ]_vars

\* C8 as stated: cd, ls and tree without argument operate on the root.
C8_NoArgOperatesOnRoot ==
  (history # <<>> /\ LastArgs = <<>>)
    => /\ LastCommand = Word.cd => currentDir = rootDir
       /\ LastCommand \in {Word.ls, Word.tree}
            => (target = rootDir /\ FsCall("readDir", rootDir) \in fsCalls)

\* C8 amended: cd without argument goes to the root; ls and tree without
\* argument operate on currentDir.
C8_NoArgCdRootLsTreeCurrent ==
  (history # <<>> /\ LastArgs = <<>>)
    => /\ LastCommand = Word.cd => currentDir = rootDir
       /\ LastCommand \in {Word.ls, Word.tree}
            => (target = currentDir /\ FsCall("readDir", currentDir) \in fsCalls)

\* ls without argument ran below the root
C8_Witness ==
  /\ history # <<>>
  /\ LastArgs = <<>>
  /\ LastCommand = Word.ls
  /\ currentDir # rootDir
  /\ lastOut = "listing"

-----------------------------------------------------------------------------
(* Properties of the pager                                                   *)

\* the top line is an offset at which a full viewport, or the whole document,
\* is shown
TopLineInRange ==
  /\ 0 <= currentLine
  /\ currentLine <= Max(0, Len(lines) - terminalHeight)

\* C9: while a document is shown and only navigation keys (j/Down/Enter,
\* k/Up, Space/PageDown, b/PageUp, g/Home, G/End) are pressed, starting from
\* the top, the top line stays between 0 and
\* max(0, number of lines - viewport height), for every document and every
\* viewport height the constructor derives from the console
C9_NavigationKeepsTopLineInRange == pagerPc = "loop" => TopLineInRange

\* C10: every search and every jump to the next or previous match leaves the
\* top line between 0 and max(0, number of lines - viewport height)
C10_JumpKeepsTopLineInRange ==
  [][(KeySearch \/ KeyNext \/ KeyPrev) => TopLineInRange']_vars

\* C11: from any state of the pager, G or End puts the top line at
\* max(0, number of lines - viewport height), and g or Home puts it at 0
C11_EndAndHomeSetTopLine ==
  [][ /\ KeyEnd => currentLine' = Max(0, Len(lines) - terminalHeight)
      /\ KeyHome => currentLine' = 0 ]_vars

\* 100 rendered lines and a viewport of 20 lines: End has put the top line at 80
C11_Witness ==
  /\ pagerPc = "loop"
  /\ Len(lines) = 100
  /\ terminalHeight = 20
  /\ currentLine = 80

\* text holds part somewhere, letters compared without regard to case
ContainsIgnoringCase(text, part) ==
  \E start \in 0..(Len(text) - Len(part)) :
    \A j \in 1..Len(part) : ToLowerChar(text[start + j]) = ToLowerChar(part[j])

\* result lists, in ascending order and each once, exactly the indices (from
\* 0) of the lines of doc that hold term
IsMatchList(result, doc, term) ==
  /\ \A i \in 1..(Len(result) - 1) : result[i] < result[i + 1]
  /\ { result[i] : i \in 1..Len(result) }
       = { k \in 0..(Len(doc) - 1) : ContainsIgnoringCase(doc[k + 1], term) }

\* C12: right after a search for a term that is not empty, searchResults is
\* the ascending list of the indices of all lines that contain the term as a
\* substring without regard to case
C12_SearchListsAllMatches ==
  [][(KeySearch /\ searchTerm' # <<>>)
       => IsMatchList(searchResults', lines, searchTerm')]_vars

\* the term occurs in exactly the lines 3, 7 and 12 of the long document
C12_Witness ==
  /\ pagerPc = "loop"
  /\ Len(lines) = 100
  /\ searchTerm = <<"ML">>
  /\ searchResults = <<3, 7, 12>>
  /\ currentLine = 3

\* the index after n has been pressed times times, and after N has been
RECURSIVE TimesNext(_, _, _)
TimesNext(index, length, times) ==
  IF times = 0 THEN index
  ELSE TimesNext(nextSearchIndex(index, length), length, times - 1)

RECURSIVE TimesPrev(_, _, _)
TimesPrev(index, length, times) ==
  IF times = 0 THEN index
  ELSE TimesPrev(prevSearchIndex(index, length), length, times - 1)

\* C13: with k matches, k > 0, n moves the match index forward by one modulo
\* k and N moves it back by one modulo k, so that from every index the pager
\* reaches, n pressed k times and N pressed k times lead back to that index
C13_MatchIndexIsCircular ==
  /\ [](Len(searchResults) > 0 =>
          LET k == Len(searchResults) IN
            /\ TimesNext(currentSearchIndex, k, k) = currentSearchIndex
            /\ TimesPrev(currentSearchIndex, k, k) = currentSearchIndex)
  /\ [][Len(searchResults) > 0 =>
          LET k == Len(searchResults) IN
            /\ KeyNext => currentSearchIndex' = (currentSearchIndex + 1) % k
            /\ KeyPrev =>
                 currentSearchIndex' = (currentSearchIndex + k - 1) % k]_vars

\* the last of three matches is the current one
C13_Witness ==
  /\ pagerPc = "loop"
  /\ Len(searchResults) = 3
  /\ currentSearchIndex = 2
  /\ currentLine = searchResults[3]

\* a step that jumps: a search that finds a match, n or N with a match list
\* that is not empty
JumpStep ==
  \/ KeySearch /\ searchTerm' # <<>> /\ Len(searchResults') > 0
  \/ KeyNext /\ Len(searchResults) > 0
  \/ KeyPrev /\ Len(searchResults) > 0

\* C14: whenever searchResults is not empty, currentSearchIndex is an index
\* into it, and right after every jump the top line is the match at that index
C14_MatchIndexValidAndJumpLands ==
  /\ [](Len(searchResults) > 0 =>
          currentSearchIndex \in 0..(Len(searchResults) - 1))
  /\ [][JumpStep => currentLine' = searchResults'[currentSearchIndex' + 1]]_vars

\* n has moved from the first to the second of two matches
C14_Witness ==
  /\ pagerPc = "loop"
  /\ searchTerm = <<"h","o","t">>
  /\ Len(searchResults) = 2
  /\ currentSearchIndex = 1
  /\ currentLine = searchResults[2]

\* C15: after every search, searchResults is the list of the lines that match
\* the search term the pager now holds (for an empty term: no line, or every
\* line), never the list of an earlier term
C15_SearchResultsFollowTerm ==
  [][KeySearch =>
       \/ IsMatchList(searchResults', lines, searchTerm')
       \/ searchTerm' = <<>> /\ searchResults' = <<>>]_vars

\* one turn of renderLoop on a given chunk: the case of the switch that the
\* decoded key selects
Press(chunk) ==
  \/ chunk \in CaseChunks.quit /\ KeyQuit
  \/ chunk \in CaseChunks.down /\ KeyDown
  \/ chunk \in CaseChunks.up /\ KeyUp
  \/ chunk \in CaseChunks.pageDown /\ KeyPageDown
  \/ chunk \in CaseChunks.pageUp /\ KeyPageUp
  \/ chunk \in CaseChunks.home /\ KeyHome
  \/ chunk \in CaseChunks.end /\ KeyEnd
  \/ chunk \in CaseChunks.search /\ KeySearch
  \/ chunk \in CaseChunks.next /\ KeyNext
  \/ chunk \in CaseChunks.prev /\ KeyPrev
  \/ chunk \in CaseChunks.help /\ KeyHelp
  \/ chunk \in OtherChunks /\ KeyOther

\* Enter, as line feed and as carriage return
EnterChunks == { <<10>>, <<13>> }

\* Left, Right, Backspace, Tab, the unbound letter x, Escape alone, a cut and
\* an unknown escape sequence, an empty read, two letters in one read
UnboundChunks ==
  { <<27, 91, 68>>, <<27, 91, 67>>, <<127>>, <<9>>, <<120>>, <<27>>,
    <<27, 91>>, <<27, 91, 90>>, <<>>, <<106, 106>> }

\* the view state stays as it is and the loop waits for the next key
KeyIsNoOp ==
  /\ pagerPc' = "loop"
  /\ UNCHANGED <<lines, currentLine, searchTerm, searchResults,
                 currentSearchIndex>>

\* C16 as stated: Enter and every key without a row in the transition table
\* (Left, Right, Backspace, other and unbound printable keys) change nothing
C16_KeysOutsideTableAreNoOps ==
  [][(\E chunk \in EnterChunks \cup UnboundChunks : Press(chunk))
       => KeyIsNoOp]_vars

\* C16 amended: every key without a row in the transition table other than
\* Enter changes nothing, and Enter scrolls down by one line as j does
C16_UnboundKeysAreNoOpsEnterScrolls ==
  [][ /\ (\E chunk \in UnboundChunks : Press(chunk)) => KeyIsNoOp
      /\ (\E chunk \in EnterChunks : Press(chunk)) =>
           /\ currentLine' = IF currentLine + terminalHeight < Len(lines)
                             THEN currentLine + 1 ELSE currentLine
           /\ UNCHANGED <<lines, searchTerm, searchResults,
                          currentSearchIndex>> ]_vars

\* a state in which a scroll or a jump by an unbound key would show: the view
\* is one line down, more lines follow, and there are matches to jump to
C16_Witness ==
  /\ pagerPc = "loop"
  /\ currentLine = 1
  /\ currentLine + terminalHeight < Len(lines)
  /\ terminalHeight > 0
  /\ Len(searchResults) > 1

\* C17: the control loop ends only by a Quit key; no other key, a search
\* included, ends the loop or makes it raise an error
C17_LoopEndsOnlyByQuit ==
  [][(pagerPc \in {"loop", "help"} /\ pagerPc' \notin {"loop", "help"})
       => KeyQuit]_vars

\* C18: a search term that is not a well-formed pattern leaves the pager open
\* with the top line, the search term and the matches it had before
C18_InvalidPatternIsRecoverable ==
  [][(KeySearch /\ \E input \in SearchInputs :
                     InvalidRegExp(input) /\ searchTerm' = input)
       => /\ pagerPc' = "loop"
          /\ UNCHANGED <<currentLine, searchTerm, searchResults>>]_vars

\* C19: highlightSearch raises a SyntaxError, and returns no line, for a
\* non-empty term that is not a valid regular expression, and returns the line
\* unchanged for the empty term; for every line of the document shown and the
\* term searched for, and for the line "target" with the term "["
C19_HighlightSurfacesInvalidPattern ==
  /\ highlightSearch(<<"t","a","r","g","e","t">>, <<"[">>).error = "SyntaxError"
  /\ \A i \in 1..Len(lines) :
       /\ (searchTerm # <<>> /\ InvalidRegExp(searchTerm))
            => highlightSearch(lines[i], searchTerm)
                 = [error |-> "SyntaxError", text |-> <<>>]
       /\ highlightSearch(lines[i], <<>>) = [error |-> "none", text |-> lines[i]]

\* the pager has drawn a document for the term "[", and the SyntaxError of
\* highlightSearch has left render
C19_Witness ==
  /\ pagerPc = "failed"
  /\ searchTerm = <<"[">>
  /\ Len(lines) > 0

\* C20: whenever readKey of the pager or readLine of the shell has returned or
\* thrown (a key, Quit, end of input, a read that fails), the terminal is in
\* cooked mode: it is raw only while a read of readLine or of readKey is
\* pending
C20_TerminalCookedAfterRead ==
  (editor.ret # "reading" /\ pagerPc \notin {"loop", "help"}) => rawMode = FALSE

\* a line was typed and returned by readLine, a read then failed in the pager
\* that man opened (the only way its interval stays set here), and after
\* that a read failed in readLine; the terminal is cooked
C20_Witness ==
  /\ replPc = "failed"
  /\ Len(history) = 2
  /\ animInterval.other = 1
  /\ rawMode = FALSE

\* C21: an empty input, a read of zero length or the end of the stream,
\* always decodes to Quit: readKey gives the pager "q", and readLine with an
\* empty line returns null
C21_EmptyInputIsQuit ==
  (editor.ret = "reading" /\ editor.line = <<>>) =>
    \A chunk \in { <<>>, Eof } :
      /\ readKey(chunk) = "q"
      /\ readLineStep(editor, chunk).ret = "null"

\* the state of readLine after the chunks of a sequence, one read each
RECURSIVE ReadAll(_, _)
ReadAll(st, chunks) ==
  IF chunks = <<>> THEN st
  ELSE ReadAll(readLineStep(st, Head(chunks)), Tail(chunks))

\* Escape alone, an escape sequence cut after the bracket, and two with a
\* final byte that is no key
BrokenEscapes == { <<27>>, <<27, 91>>, <<27, 91, 90>>, <<27, 79, 80>> }

\* C22: decoding keeps nothing from one read to the next: a cut or unknown
\* escape sequence is no key for the pager and is dropped by readLine, so the
\* chunk read after it has the effect it has without it
C22_DecodingKeepsNoState ==
  editor.ret = "reading" =>
    \A broken \in BrokenEscapes :
      /\ readKey(broken) = ""
      /\ readLineStep(editor, broken) = editor
      /\ \A chunk \in EditorChunks :
           ReadAll(editor, <<broken, chunk>>) = readLineStep(editor, chunk)

\* readLine is reading with a line typed and the cursor inside it, where a
\* byte kept from an earlier read would show
C22_Witness ==
  /\ editor.ret = "reading"
  /\ editor.line = <<"a", "b">>
  /\ editor.cursor = 1

\* C23: in the line editor 0 <= cursor <= len(text) after any sequence of keys
C23_CursorWithinLine ==
  /\ editor.cursor >= 0
  /\ editor.cursor <= Len(editor.line)

\* Left has been pressed up to the start of a line of three characters
C23_Witness ==
  /\ editor.ret = "reading"
  /\ Len(editor.line) = 3
  /\ editor.cursor = 0

\* the characters of the letters typed
TypedChar ==
  [byte \in {97, 98, 99, 88} |->
     CASE byte = 97 -> "a" [] byte = 98 -> "b" [] byte = 99 -> "c"
       [] byte = 88 -> "X"]

\* C24: a printable character goes in at the cursor and the cursor moves on
\* by one; a, b, c, Left, Left, X give the text aXbc with the cursor at 2; and
\* Enter returns the text typed
C24_InsertAtCursor ==
  /\ ReadAll([line |-> <<>>, cursor |-> 0, ret |-> "reading", value |-> <<>>],
             << <<97>>, <<98>>, <<99>>, <<27, 91, 68>>, <<27, 91, 68>>, <<88>> >>)
       = [line |-> <<"a", "X", "b", "c">>, cursor |-> 2, ret |-> "reading",
          value |-> <<>>]
  /\ editor.ret = "reading" =>
       /\ \A byte \in DOMAIN TypedChar :
            LET after == readLineStep(editor, <<byte>>)
            IN /\ after.line = SubSeq(editor.line, 1, editor.cursor)
                                 \o << TypedChar[byte] >>
                                 \o SubSeq(editor.line, editor.cursor + 1,
                                           Len(editor.line))
               /\ after.cursor = editor.cursor + 1
               /\ after.ret = "reading"
       /\ \A enter \in { <<10>>, <<13>> } :
            LET after == readLineStep(editor, enter)
            IN after.ret = "string" /\ after.value = editor.line

\* readLine has returned the line typed as a, b, c, Left, Left, X
C24_Witness ==
  /\ editor.ret = "string"
  /\ editor.value = <<"a", "X", "b", "c">>
  /\ editor.cursor = 2

\* C25 as stated: Ctrl-C, Ctrl-D and the end of input make readLine return
\* null when the line is empty, and change nothing when it is not
C25_QuitCancelsOnlyEmptyLine ==
  editor.ret = "reading" =>
    \A quit \in { <<3>>, <<4>>, Eof } :
      IF editor.line = <<>>
      THEN readLineStep(editor, quit).ret = "null"
      ELSE readLineStep(editor, quit) = editor

\* C25 amended: Ctrl-D makes readLine return null when the line is empty and
\* changes nothing when it is not; the end of input makes it return null
\* whatever the line holds; Ctrl-C makes it return the empty string whatever
\* the line holds; and on null the shell exits and leaves its loop
C25_CtrlDCancelsOnlyEmptyLine ==
  /\ [](editor.ret = "reading" =>
          /\ IF editor.line = <<>>
             THEN readLineStep(editor, <<4>>).ret = "null"
             ELSE readLineStep(editor, <<4>>) = editor
          /\ readLineStep(editor, Eof).ret = "null"
          /\ readLineStep(editor, <<3>>).ret = "string"
          /\ readLineStep(editor, <<3>>).value = <<>>)
  /\ [][ReplReadsNull => (running' = FALSE /\ replPc' = "done")]_vars

\* readLine has returned null and the shell has left its loop
C25_Witness ==
  /\ editor.ret = "null"
  /\ editor.line = <<>>
  /\ replPc = "done"
  /\ running = FALSE

\* C26: the shell's loop ends only on an exit command or at the end of input;
\* after an unknown command the hint is printed, the session runs on and the
\* current directory is the same; a manual whose pager quit or failed brings
\* the shell back to its prompt
C26_LoopEndsOnlyOnExitOrEof ==
  [][ /\ (replPc \in {"prompt", "man"} /\ replPc' \notin {"prompt", "man"})
           => (ReplExit \/ ReplEof)
      /\ ManReturns => (running' = TRUE /\ replPc' = "prompt")
      /\ ReplUnknown => /\ lastOut' = "unknown"
                        /\ running' = TRUE
                        /\ replPc' = "prompt"
                        /\ currentDir' = currentDir ]_vars

\* the names of RegistryNames that differ from a name in letter case at most
Spellings(name) ==
  { other \in RegistryNames : ToLowerCase(other) = ToLowerCase(name) }

\* C28: the registry ignores letter case at every operation: after
\* register(a, p), get(b) is p and has(b) is true for every spelling b of a,
\* and unregister(b) removes what was registered as a
C28_RegistryIgnoresCase ==
  /\ [](\A a \in RegistryNames : \A b \in Spellings(a) :
          /\ RegistryHas(a) <=> RegistryHas(b)
          /\ RegistryGet(a) = RegistryGet(b))
  /\ [][\A a \in RegistryNames : \A b \in Spellings(a) : \A p \in RegisteredPages :
          /\ register(a, p) => (RegistryHas(b)' /\ RegistryGet(b)' = p)
          /\ unregister(b) => (~RegistryHas(a)' /\ RegistryGet(a)' = "undefined")
       ]_vars

\* a page is registered under dev, whatever the spelling used, in place of the
\* constructor's page
C28_Witness ==
  /\ RegistryGet(<<"D","E","V">>) = "pageB"
  /\ RegistryHas(<<"A","B","C">>)
  /\ RegistrySize = 4

\* C29: list() holds every registered key once, in ascending order; a fresh
\* registry lists dev, genesis, init, and with zzz and abc registered it lists
\* abc, dev, genesis, init, zzz
C29_ListIsSortedKeys ==
  /\ Len(RegistryList) = Cardinality(DOMAIN pages)
  /\ \A k \in DOMAIN pages : \E i \in 1..Len(RegistryList) : RegistryList[i] = k
  /\ \A i \in 1..(Len(RegistryList) - 1) :
       StringLess(RegistryList[i], RegistryList[i + 1])
  /\ DOMAIN pages = {Topic.dev, Topic.genesis, Topic.init}
       => RegistryList = <<Topic.dev, Topic.genesis, Topic.init>>
  /\ DOMAIN pages = {Topic.dev, Topic.genesis, Topic.init,
                     <<"z","z","z">>, <<"a","b","c">>}
       => RegistryList = << <<"a","b","c">>, Topic.dev, Topic.genesis,
                            Topic.init, <<"z","z","z">> >>

\* zzz and abc have been registered next to the constructor's three pages
C29_Witness ==
  /\ RegistryList = << <<"a","b","c">>, Topic.dev, Topic.genesis, Topic.init,
                       <<"z","z","z">> >>
  /\ pages[<<"z","z","z">>] = "pageA"

-----------------------------------------------------------------------------

\* C30: in whatever order register and unregister are called, on present and
\* on absent names, size is the length of list(), a name unregistered is
\* absent, a name registered is present, and every other name is as before
C30_RegistryStaysConsistent ==
  /\ [](RegistrySize = Len(RegistryList))
  /\ [][\A name \in RegistryNames :
          /\ unregister(name) =>
               /\ ~RegistryHas(name)'
               /\ \A other \in RegistryNames \ Spellings(name) :
                    RegistryGet(other)' = RegistryGet(other)
          /\ (\E p \in RegisteredPages : register(name, p)) =>
               /\ RegistryHas(name)'
               /\ \A other \in RegistryNames \ Spellings(name) :
                    RegistryGet(other)' = RegistryGet(other)
       ]_vars

\* alpha is registered, and beta and omega are not, as after the test's calls
C30_Witness ==
  /\ RegistryHas(<<"a","l","p","h","a">>)
  /\ ~RegistryHas(<<"b","e","t","a">>)
  /\ ~RegistryHas(<<"o","m","e","g","a">>)
  /\ RegistrySize = Len(RegistryList)
  /\ RegistrySize = 4

\* C27: manCommand returns 0 when the topic is registered and was displayed,
\* and 1 when the topic is absent from the registry
C27_ExitCodeTellsAbsence ==
  \A name \in RegistryNames \cup {Topic.genesis} :
    manCommandExit(<<name>>, FALSE) = IF RegistryHas(name) THEN 0 ELSE 1

\* C31: for a name that is not registered, get returns undefined, unregister
\* returns false, and the registry holds the same pages, in the same number,
\* after the call as before it
C31_AbsentNameChangesNothing ==
  \A name \in RegistryNames :
    ~RegistryHas(name) =>
      /\ RegistryGet(name) = "undefined"
      /\ MapDelete(name).result = FALSE
      /\ MapDelete(name).pages = pages
      /\ Cardinality(DOMAIN MapDelete(name).pages) = RegistrySize

\* the registry after registrations and removals: zzz is registered, dev has
\* been removed, and omega was never there
C31_Witness ==
  /\ RegistryHas(<<"z","z","z">>)
  /\ ~RegistryHas(Topic.dev)
  /\ ~RegistryHas(<<"o","m","e","g","a">>)
  /\ MapDelete(<<"D","E","V">>).result = FALSE
  /\ MapDelete(<<"z","z","z">>).result = TRUE

\* C35: each scrolling key sets the top line as the transition table states,
\* Down/j one more iff topLine + viewportHeight < totalLines, Up/k one less
\* iff topLine > 0, Space/PageDown min(topLine + viewportHeight,
\* max(0, totalLines - viewportHeight)), PageUp/b
\* max(topLine - viewportHeight, 0), and leaves the lines and the search state
\* as they were
C35_ScrollKeysFollowTable ==
  [][ /\ KeyDown =>
           currentLine' = IF currentLine + terminalHeight < Len(lines)
                          THEN currentLine + 1 ELSE currentLine
      /\ KeyUp =>
           currentLine' = IF currentLine > 0 THEN currentLine - 1
                          ELSE currentLine
      /\ KeyPageDown =>
           currentLine' = Min(currentLine + terminalHeight,
                              Max(0, Len(lines) - terminalHeight))
      /\ KeyPageUp => currentLine' = Max(currentLine - terminalHeight, 0)
      /\ (KeyDown \/ KeyUp \/ KeyPageDown \/ KeyPageUp) =>
           UNCHANGED <<lines, searchTerm, searchResults, currentSearchIndex>>
    ]_vars

\* a view a page or more down a document with matches found, where Up and
\* PageUp move, and Down and PageDown have lines left to show
C35_Witness ==
  /\ pagerPc = "loop"
  /\ terminalHeight > 0
  /\ currentLine >= terminalHeight
  /\ currentLine + terminalHeight < Len(lines)
  /\ searchResults # <<>>
  /\ currentSearchIndex > 0

\* C36: while the help overlay is shown, the next key, whichever it is (q,
\* Ctrl-C and the end of input included), dismisses the overlay and nothing
\* more: the loop waits for the next key, it has not quit, and the lines, the
\* top line and the search state are those of before the overlay
C36_AnyKeyOnlyDismissesHelp ==
  [][HelpDismiss =>
       /\ pagerPc' = "loop"
       /\ animInterval' = animInterval
       /\ UNCHANGED <<lines, currentLine, searchTerm, searchResults,
                      currentSearchIndex>>]_vars

\* the overlay is open over a view that was scrolled down and has matches
C36_Witness ==
  /\ pagerPc = "help"
  /\ currentLine > 0
  /\ searchResults # <<>>
  /\ currentSearchIndex > 0
  /\ animInterval.own > 0

\* C38: whenever the render loop has been left, by Quit or by an error thrown
\* while rendering or reading a key, the animation interval started at loop
\* entry has been cleared
C38_TimerClearedOnEveryExit ==
  pagerPc \in {"done", "failed"} => animInterval.own = 0

\* C40: the percentage of the status bar is between 0 and 100 inclusive
\* whenever the view is rendered, for every document length and every top
\* line
C40_PercentWithinHundred ==
  pagerPc = "loop" => percent \in 0..100

\* C39: in every state of the shell the length of history is commandCount,
\* and every line submitted adds its trimmed text at the end of history when
\* it is not blank, whatever the command does with it (unknown, denied and
\* failing commands included), and adds nothing when it is blank or empty, as
\* a line cancelled with Ctrl-C is
C39_HistoryIsTheTrimmedLines ==
  /\ [](Len(history) = commandCount)
  /\ [][\A line \in InputLines :
          ReplTurn(line) =>
            history' = IF Trim(line) = <<>> THEN history
                       ELSE Append(history, Trim(line))]_vars

\* two lines were submitted: a cd typed with spaces around it and in capitals,
\* then an unknown command
C39_Witness ==
  /\ commandCount = 2
  /\ history = << <<"C", "D", " ", " ">> \o PathName.sub, Word.foo >>
  /\ lastOut = "unknown"
  /\ currentDir # rootDir

\* C32: a register or an unregister call made while a document is displayed,
\* on the displayed topic or on another name, leaves the lines of the
\* session, its top line and its search state as they were
C32_SessionKeepsItsSnapshot ==
  [][(\/ \E command \in SessionNames, page \in RegisteredPages :
           register(command, page)
      \/ \E command \in SessionNames : unregister(command))
       => UNCHANGED <<lines, currentLine, searchTerm, searchResults,
                      currentSearchIndex>>]_vars

\* the dev page is displayed, scrolled to a match, and dev is no longer in
\* the registry
C32_Witness ==
  /\ pagerPc = "loop"
  /\ lines = render(Page.dev, terminalWidth)
  /\ ~RegistryHas(Topic.dev)
  /\ searchResults # <<>>
  /\ currentLine > 0

\* C34: the callback of the animation timer, run at any point where the
\* render loop is suspended, advances the frame counter and changes none of
\* lines, the top line, the search term, the matching lines and the index of
\* the current match
C34_TimerLeavesViewState ==
  [][AnimTick =>
       /\ animationFrame' = animationFrame + 1
       /\ UNCHANGED <<lines, currentLine, searchTerm, searchResults,
                      currentSearchIndex, pagerPc>>]_vars

\* the timer has fired twice while a document is displayed, between a scroll
\* and a search that found matches
C34_Witness ==
  /\ animationFrame = MaxFrames
  /\ pagerPc \in {"loop", "help"}
  /\ animInterval.own > 0
  /\ searchResults # <<>>
  /\ currentSearchIndex > 0

\* C33: every call of display starts with the top line 0, an empty search
\* term, no matching lines and the match index 0, also on a ManualPager that
\* displayed and searched another document before
C33_DisplayStartsFresh ==
  [][display =>
       /\ currentLine' = 0
       /\ searchTerm' = <<>>
       /\ searchResults' = <<>>
       /\ currentSearchIndex' = 0]_vars

\* the line's command, in the current directory, makes a call of the
\* filesystem that fails with an error other than not-found: a stat through a
\* regular file, a readDir of a regular file or through one, a readTextFile
\* of a directory, through a regular file or of a file that may not be read
MeetsIoError(line, commands, kinds) ==
  /\ Trim(line) # <<>>
  /\ CommandOf(line) \in commands
  /\ ArgsOf(line) # <<>>
  /\ isPathAllowed(normalizePath(ArgsOf(line)[1]))
  /\ Stat(normalizePath(ArgsOf(line)[1])) \in kinds

FailsInHandler(line) ==
  \/ MeetsIoError(line, {Word.cd}, {"ioerror"})
  \/ MeetsIoError(line, {Word.ls}, {"file", "locked", "ioerror"})
  \/ MeetsIoError(line, {Word.cat}, {"dir", "ioerror"})
  \/ MeetsIoError(line, {Word.less, Word.more}, {"dir", "locked", "ioerror"})

FailsInCat(line) == MeetsIoError(line, {Word.cat}, {"locked"})

FailsInTree(line) ==
  MeetsIoError(line, {Word.tree}, {"file", "locked", "ioerror"})

\* the loop goes on in the same directory
SessionGoesOn ==
  /\ running'
  /\ replPc' = "prompt"
  /\ currentDir' = currentDir

\* C37 as stated: a failure of the filesystem other than not-found inside any
\* handler, tree included, is printed as an error, the session keeps running
\* and the current directory is unchanged
C37_IoErrorIsPrinted ==
  [][\A line \in InputLines :
       (ReplTurn(line) /\ (\/ FailsInHandler(line)
                            \/ FailsInCat(line)
                            \/ FailsInTree(line)))
         => (lastOut' = "error" /\ SessionGoesOn)]_vars

\* C37 amended: a failure of the filesystem other than not-found inside cd,
\* ls, cat or less is printed as an error by the command boundary, except
\* that cat prints "Permission denied" itself for a file it may not read;
\* inside tree the failure is skipped and tree prints its heading only; in
\* every case the session keeps running and the current directory is
\* unchanged
C37_IoErrorIsPrintedExceptByTree ==
  [][\A line \in InputLines :
       /\ (ReplTurn(line) /\ FailsInHandler(line))
            => (lastOut' = "error" /\ SessionGoesOn)
       /\ (ReplTurn(line) /\ FailsInCat(line))
            => (lastOut' = "permission" /\ SessionGoesOn)
       /\ (ReplTurn(line) /\ FailsInTree(line))
            => (lastOut' = "tree" /\ SessionGoesOn)]_vars

\* a cd whose stat failed with an error other than not-found has been
\* answered with the error, below the root, and the shell is at its prompt
C37_Witness ==
  /\ lastOut = "error"
  /\ target # NoPath
  /\ Stat(target) = "ioerror"
  /\ fsCalls = {FsCall("stat", target)}
  /\ currentDir # rootDir
  /\ replPc = "prompt"
  /\ running

====
